---- MODULE Spec2Model ----
(***************************************************************************)
(* Halloween coffin: scene execution engine, detection loop and devices.   *)
(*                                                                         *)
(* The specifications below share one set of variables.                    *)
(*   Spec        the scene engine: either two concurrent callers of        *)
(*               run_halloween_sequence (old_files/main.py) or one call of *)
(*               run_scene (run_scene.py); both end in                     *)
(*               SceneManager.execute_scene.                               *)
(*   SpecDetect  main() of old_files/main.py: start-up, the detection loop *)
(*               with a discrete clock, which calls                        *)
(*               run_halloween_sequence, KeyboardInterrupt and shutdown.   *)
(*   SpecMotor   Motor.move_forward / Motor.move_reverse issued by two     *)
(*               concurrent units, one GPIO write per step.                *)
(*   SpecAudio   MP3Player.play and its playback threads, two players.     *)
(*   SpecRelay   Relay.on / Relay.off issued by the scene thread and by    *)
(*               timed_off threads, one write per step.                    *)
(*   SpecRelayFair  SpecRelay with weak fairness of the timed_off threads. *)
(*   SpecLight   GoveeLight.turn_on / turn_off / set_color / flash.        *)
(*   SpecEffects SceneManager.execute_effects on one bundle, with the four *)
(*               effect executors.                                         *)
(*   SpecCleanup SceneManager.execute_emergency_cleanup on the relay, the  *)
(*               motor and the lights.                                     *)
(*   SpecScenes  the scene configuration: the choice of the scene in       *)
(*               run_halloween_sequence, get_scene, get_all_scenes and     *)
(*               get_scene_names.                                          *)
(*   SpecSequence  execute_sequence of main.py on one list of actions.     *)
(*   SpecProbe   get_shortest_distance and the loop of test.py.            *)
(***************************************************************************)
EXTENDS Integers, Sequences, FiniteSets

VARIABLES
    program,              \* which entry point or device is exercised
    pc,                   \* position of every thread
    SEQUENCE_RUNNING,     \* old_files/main.py:47
    SYSTEM_INITIALIZED,   \* old_files/main.py:46
    nsteps,               \* per thread: len(steps) of the selected scene, NotFound if get_scene is None
    step,                 \* per thread: index of the step being executed
    fx,                   \* per thread: position in the dispatch order of execute_effects
    success,              \* per thread: `success` of execute_effects, then of execute_scene
    cidx,                 \* per thread: index of the emergency cleanup action in progress
    ncleanup,             \* len(error_handling.emergency_cleanup)
    result,               \* per thread: value returned by the call
    hist,                 \* per thread: what the call in progress has done (observation only)
    now,                  \* time.time(), in sensor reading intervals
    last_sequence_time,   \* old_files/main.py:454
    current_time,         \* old_files/main.py:461
    distance,             \* old_files/main.py:457
    retry_count,          \* old_files/main.py:286
    reading,              \* <<distance_1, distance_2>> of the last read attempt
    det,                  \* what the detection loop has done (observation only)
    forward_pin,          \* level of the motor's forward GPIO output
    reverse_pin,          \* level of the motor's reverse GPIO output
    mpc,                  \* per unit: position inside Motor.move_forward / move_reverse
    mdir,                 \* per unit: direction of the move in progress
    mret,                 \* per unit: outcome of the last move
    duration,             \* per thread: `duration` read by execute_step
    is_playing,           \* per player: MP3Player.is_playing
    playback,             \* per player and thread slot: position of _play_in_thread
    aret,                 \* per player: outcome of the last play()
    active_high,          \* Relay.active_high
    relay_state,          \* Relay.state
    relay_pin,            \* level of the relay's GPIO output
    rpc,                  \* per relay unit: position inside Relay.on / Relay.off
    rop,                  \* per relay unit: the call in progress, "on" or "off"
    rret,                 \* outcome of the scene unit's last relay call
    rwas,                 \* the relay was already as requested when that call was issued (observation only)
    rdur,                 \* `duration` of the scene unit's relay effect (scene_manager.py:398)
    rhit,                 \* a timed_off thread assigned self.state during that call (observation only)
    light_power,          \* last turn command the light received
    light_color,          \* last colour the light received
    lpc,                  \* position inside GoveeLight.flash
    flash_left,           \* flash: iterations of the loop still to run
    sent,                 \* commands handed to send_command by the call in progress
    lret,                 \* outcome of the last call on the light; inside flash: its `success`
    lcall,                \* the last call on the light and its arguments (observation only)
    effects,              \* keys of the `effects` dict of the step, in configuration order
    epos,                 \* execute_effects: the `if ... in effects` block reached, 0 outside the call
    esuccess,             \* execute_effects: `success`
    eret,                 \* value returned by the last execute_effects
    elog,                 \* what that execute_effects did (observation only)
    cleanup_actions,      \* action types of error_handling.emergency_cleanup, in order
    cpos,                 \* execute_emergency_cleanup: index of the action in progress, 0 outside the call
    clog,                 \* plugin calls of that call that completed, "returned" once it is over (observation only)
    scenes,               \* config['scenes']: scene name -> scene definition
    alternative_sequences,\* config['alternative_sequences']: scene name -> scene definition
    random_scene_mode,    \* settings.random_scene_mode
    random_scene_list,    \* settings.random_scene_list
    scene_name,           \* run_halloween_sequence: `scene_name`, "unset" before line 390
    random_choice,        \* that call made a random.choice (observation only)
    qname,                \* argument of the last get_scene, "unset" before the first
    scene_config,         \* value returned by the last get_scene
    all_scenes,           \* <<value returned by the last get_all_scenes>>, <<>> before the first
    sequence_config,      \* main.py execute_sequence: what each item of the list is
    action_index,         \* execute_sequence: index of the item the loop is at, 0 outside the call
    seq_log,              \* what the call did with the items so far, in order (observation only)
    seq_ret,              \* how the last execute_sequence ended
    distance_1,           \* test.py get_shortest_distance: `distance_1`
    distance_2,           \* test.py get_shortest_distance: `distance_2`
    tpc,                  \* position of test.py
    test_distance,        \* test.py main: `distance`
    probes                \* passes of the read loop made by the call in progress (observation only)

engineVars == <<program, pc, SEQUENCE_RUNNING, SYSTEM_INITIALIZED, nsteps, step, fx,
                success, cidx, ncleanup, result, hist>>
detectVars == <<now, last_sequence_time, current_time, distance, retry_count, reading, det>>
motorVars  == <<forward_pin, reverse_pin, mpc, mdir, mret>>
audioVars  == <<is_playing, playback, aret>>
relayVars  == <<active_high, relay_state, relay_pin, rpc, rop, rret, rwas, rdur, rhit>>
lightVars  == <<light_power, light_color, lpc, flash_left, sent, lret, lcall>>
deviceVars == <<audioVars, relayVars, lightVars>>
bundleVars == <<effects, epos, esuccess, eret, elog>>
cleanupVars == <<cleanup_actions, cpos, clog>>
sceneVars == <<scenes, alternative_sequences, random_scene_mode, random_scene_list,
               scene_name, random_choice, qname, scene_config, all_scenes>>
seqVars == <<sequence_config, action_index, seq_log, seq_ret>>
probeVars == <<distance_1, distance_2, tpc, test_distance, probes>>
toolVars == <<sceneVars, seqVars, probeVars>>
callVars == <<bundleVars, cleanupVars, toolVars>>
vars == <<engineVars, duration, detectVars, motorVars, deviceVars, callVars>>

-----------------------------------------------------------------------------
(* Bounds of the model *)
MaxSteps    == 3    \* longest scene
MaxCleanup  == 2    \* longest emergency_cleanup list
MaxDuration == 1    \* longest step duration, in sensor reading intervals
MaxTime     == 5    \* sensor reading intervals the clock runs for
MaxPlayback == 2    \* playback threads of one player alive at a time
MaxTimers   == 1    \* timed_off threads alive at a time
MaxFlash    == 2    \* largest flash amount
MaxActions  == 3    \* longest list given to execute_sequence
MaxProbes   == 6    \* passes of test.py's read loop that are followed
cooldown_after_sequence == 3   \* settings.cooldown_after_sequence, in sensor reading intervals

(* Program constants *)
distance_threshold_near == 50
default_safe_distance   == 200
max_sensor_retries      == 5
warning_distance        == 100
LOW  == 0
HIGH == 1
MIN_COLOR_VALUE == 0
MAX_COLOR_VALUE == 255

None     == 0 - 1      \* Python None returned by read_distance
NotFound == 0 - 1      \* get_scene(scene_name) is None

Callers == {"main", "op"}
Threads == {"main", "op", "cli"}
EffectOrder == <<"lights", "audio", "motor", "relay">>
Outcomes == {"ok", "false", "raise"}
Units == {"scene", "door"}
Players == {"opening", "creepy"}
Slots == 1..MaxPlayback
Timers == 1..MaxTimers
RelayUnits == {0} \cup Timers      \* 0: the scene thread; the others: timed_off threads
Channel == {0 - 1, 0, 255, 256}     \* colour channel values tried
Readings == {None, 40, 80, 150}
Horizon == cooldown_after_sequence + MaxTime
SceneLens == {NotFound} \cup (0..MaxSteps)

(* What one call has done so far; reset when the call is issued. The fields  *)
(* started, dispatched, failedStep and raisedStep observe execute_scene and   *)
(* are dropped once its caller's finally clause has taken over; failed and    *)
(* raised keep whether there was a dispatch failure or an exception at all.   *)
NoHist == [accepted   |-> FALSE,   \* passed the guards of run_halloween_sequence
           rejected   |-> FALSE,   \* returned False at a guard
           started    |-> 0,       \* steps started
           dispatched |-> FALSE,   \* some effect was dispatched
           failedStep |-> 0,       \* step whose dispatcher reported failure
           raisedStep |-> 0,       \* step in which an exception was raised
           failed     |-> FALSE,   \* the dispatcher reported a failure
           raised     |-> FALSE,   \* an exception was raised in a step
           cleanups   |-> 0,       \* calls of execute_emergency_cleanup
           attempted  |-> <<>>,    \* cleanup actions attempted, in order
           caught     |-> 0,       \* cleanup actions that raised and were logged
           escaped    |-> FALSE,   \* an exception left execute_emergency_cleanup
           stepStart  |-> 0,       \* clock when the latest step started
           blocked    |-> FALSE,   \* a flash or motor move of this bundle has run to its end
           behind     |-> FALSE]   \* an effect of this bundle was dispatched after that end

-----------------------------------------------------------------------------
(* SceneManager: decisions of the code as operators *)

\* every execute_*_effect returns True only on success; a missing hardware
\* reference returns False and an exception is caught and returns False
EffectReturns(o) == o = "ok"

\* execute_effects: success = False once any present effect returns False
EffectsSuccess(acc, present, o) == IF present THEN acc /\ EffectReturns(o) ELSE acc

SceneAfterStepContinue(ok, i, n) ==
    IF i < n THEN "next_step" ELSE IF ok THEN "return_true" ELSE "return_false"

\* execute_scene: for step_config in steps: if not execute_step(...): return False
SceneAfterStep(ok, i, n) ==
    IF ~ok THEN "return_false" ELSE IF i < n THEN "next_step" ELSE "return_true"

SceneExceptReturnsTrue == TRUE

\* execute_scene: except Exception: return False
SceneExceptReturns == FALSE

FinallyCleanupOnFailure(ok) == ~ok

\* run_halloween_sequence: finally: ... scene_manager.execute_emergency_cleanup()
FinallyCleanup(ok) == TRUE

CleanupAfterAbort(i, o) == IF o = "raise" THEN [next |-> ncleanup + 1, escaped |-> TRUE]
                           ELSE [next |-> i + 1, escaped |-> FALSE]

\* execute_emergency_cleanup: the try/except is inside the for loop
CleanupAfter(i, o) == [next |-> i + 1, escaped |-> FALSE]

EmptySceneReturnsFalse == FALSE

\* execute_scene: if not steps: return True
EmptySceneReturns == TRUE

\* the clock is observed by the detection loop only
Clocked == program = "main"

\* time.sleep(d)
Sleep(d) ==
    /\ now + d <= Horizon
    /\ now' = IF Clocked THEN now + d ELSE now

StepSleepNone(d) == 0

\* execute_step: if duration > 0: time.sleep(duration)
StepSleep(d) == IF d > 0 THEN d ELSE 0

\* effects whose execute_*_effect returns only when the device is done:
\* lights.flash(...) and motor.move_forward / move_reverse
Blocking == {"lights", "motor"}

\* time an effect keeps execute_effects busy: a completed motor move its
\* duration, a light effect the length of its flash (0 without flash), every
\* other effect and every failed one none; without a clock it is not observed
Costs(e, present, o) ==
    IF Clocked /\ present /\ o = "ok" /\ e \in Blocking
    THEN (IF e = "motor" THEN 1..MaxDuration ELSE 0..MaxDuration)
    ELSE {0}

\* the observations of one bundle are dropped; the start of the step is kept
\* until the next step starts
StepOver(h, more) == [h EXCEPT !.stepStart = IF more THEN @ ELSE 0,
                               !.blocked = FALSE, !.behind = FALSE]

\* the observations of execute_scene are dropped
SceneOver(h) == [h EXCEPT !.started = 0, !.dispatched = FALSE,
                          !.failedStep = 0, !.raisedStep = 0]

\* where execute_scene returns to
AfterScene(t) == IF t = "cli" THEN "cli_finally" ELSE "rhs_finally"

AfterExceptionEscapes(t) == "exit_1"

\* execute_scene: `except Exception` ends the scene inside execute_scene, which
\* returns to its caller like any other return
AfterException(t) == AfterScene(t)

FlagAfterRunStuck == TRUE

\* run_halloween_sequence: finally: SEQUENCE_RUNNING = False
FlagAfterRun == FALSE

Running(t) == pc[t] \in {"es_start", "step_begin", "dispatch", "step_wait"}

-----------------------------------------------------------------------------
(* run_halloween_sequence, old_files/main.py *)

\* if SEQUENCE_RUNNING: return False / if not SYSTEM_INITIALIZED ...: return False
RhsGuard(t) ==
    /\ pc[t] = "rhs_guard"
    /\ IF SEQUENCE_RUNNING \/ ~SYSTEM_INITIALIZED
       THEN /\ pc' = [pc EXCEPT ![t] = "ret"]
            /\ result' = [result EXCEPT ![t] = FALSE]
            /\ hist' = [hist EXCEPT ![t].rejected = TRUE]
       ELSE /\ pc' = [pc EXCEPT ![t] = "rhs_set"]
            /\ UNCHANGED <<result, hist>>
    /\ UNCHANGED <<program, SEQUENCE_RUNNING, SYSTEM_INITIALIZED, nsteps, step, fx,
                   success, cidx, ncleanup>>
    /\ UNCHANGED <<duration, detectVars, motorVars, deviceVars>>
    /\ UNCHANGED callVars

\* SEQUENCE_RUNNING = True; choose scene_name; scene_manager.execute_scene(scene_name)
RhsSet(t) ==
    /\ pc[t] = "rhs_set"
    /\ SEQUENCE_RUNNING' = TRUE
    /\ \E n \in SceneLens : nsteps' = [nsteps EXCEPT ![t] = n]
    /\ hist' = [hist EXCEPT ![t].accepted = TRUE]
    /\ pc' = [pc EXCEPT ![t] = "es_start"]
    /\ UNCHANGED <<program, SYSTEM_INITIALIZED, step, fx, success, cidx, ncleanup, result>>
    /\ UNCHANGED <<duration, detectVars, motorVars, deviceVars>>
    /\ UNCHANGED callVars

\* return success; finally: SEQUENCE_RUNNING = False; execute_emergency_cleanup()
RhsFinally(t) ==
    /\ pc[t] = "rhs_finally"
    /\ result' = [result EXCEPT ![t] = success[t]]
    /\ SEQUENCE_RUNNING' = FlagAfterRun
    /\ IF FinallyCleanup(success[t])
       THEN /\ pc' = [pc EXCEPT ![t] = "cleanup"]
            /\ hist' = [hist EXCEPT ![t] = [SceneOver(@) EXCEPT !.cleanups = @ + 1]]
       ELSE /\ pc' = [pc EXCEPT ![t] = "ret"]
            /\ hist' = [hist EXCEPT ![t] = SceneOver(@)]
    /\ nsteps' = [nsteps EXCEPT ![t] = 0]
    /\ success' = [success EXCEPT ![t] = FALSE]
    /\ UNCHANGED <<program, SYSTEM_INITIALIZED, step, fx, cidx, ncleanup>>
    /\ UNCHANGED <<duration, detectVars, motorVars, deviceVars>>
    /\ UNCHANGED callVars

-----------------------------------------------------------------------------
(* SceneManager.execute_scene, scene_manager.py *)

\* scene not found: return False; no steps: return True; else enter the loop
EsStart(t) ==
    /\ pc[t] = "es_start"
    /\ IF nsteps[t] = NotFound
       THEN /\ success' = [success EXCEPT ![t] = FALSE]
            /\ pc' = [pc EXCEPT ![t] = AfterScene(t)]
            /\ UNCHANGED step
       ELSE IF nsteps[t] = 0
       THEN /\ success' = [success EXCEPT ![t] = EmptySceneReturns]
            /\ pc' = [pc EXCEPT ![t] = AfterScene(t)]
            /\ UNCHANGED step
       ELSE /\ step' = [step EXCEPT ![t] = 1]
            /\ pc' = [pc EXCEPT ![t] = "step_begin"]
            /\ UNCHANGED success
    /\ UNCHANGED <<program, SEQUENCE_RUNNING, SYSTEM_INITIALIZED, nsteps, fx, cidx,
                   ncleanup, result, hist>>
    /\ UNCHANGED <<duration, detectVars, motorVars, deviceVars>>
    /\ UNCHANGED callVars

\* execute_step up to the call of execute_effects. cfg is the shape of the step's
\* configuration: "ok"; "bad_header": reading the header raises before the try, the
\* exception reaches execute_scene's except; "bad_effects": execute_effects raises
\* inside the try, execute_step returns False and execute_scene returns False.
StepBegin(t) ==
    /\ pc[t] = "step_begin"
    /\ \E cfg \in {"ok", "bad_header", "bad_effects"} :
         IF cfg = "ok"
         THEN /\ fx' = [fx EXCEPT ![t] = 1]
              /\ success' = [success EXCEPT ![t] = TRUE]
              /\ pc' = [pc EXCEPT ![t] = "dispatch"]
              /\ hist' = [hist EXCEPT ![t].started = @ + 1, ![t].stepStart = now]
              /\ \E d \in 0..MaxDuration :
                   duration' = [duration EXCEPT ![t] = IF Clocked THEN d ELSE 0]
              /\ UNCHANGED step
         ELSE /\ success' = [success EXCEPT ![t] =
                    IF cfg = "bad_header" THEN SceneExceptReturns ELSE FALSE]
              /\ pc' = [pc EXCEPT ![t] = IF cfg = "bad_header" THEN AfterException(t)
                                                               ELSE AfterScene(t)]
              /\ hist' = [hist EXCEPT ![t].started = @ + 1, ![t].raisedStep = step[t],
                                       ![t].raised = TRUE, ![t].stepStart = 0]
              /\ step' = [step EXCEPT ![t] = 0]
              /\ duration' = [duration EXCEPT ![t] = 0]
              /\ UNCHANGED fx
    /\ UNCHANGED <<program, SEQUENCE_RUNNING, SYSTEM_INITIALIZED, nsteps, cidx,
                   ncleanup, result>>
    /\ UNCHANGED <<detectVars, motorVars, deviceVars>>
    /\ UNCHANGED callVars

\* execute_effects: the effect at position fx of the fixed order, if the step has it
Dispatch(t) ==
    /\ pc[t] = "dispatch"
    /\ \E present \in BOOLEAN : \E o \in (IF present THEN Outcomes ELSE {"ok"}) :
       \E c \in Costs(EffectOrder[fx[t]], present, o) :
         /\ success' = [success EXCEPT ![t] = EffectsSuccess(@, present, o)]
         /\ Sleep(c)
         /\ hist' = [hist EXCEPT
                ![t].behind = @ \/ (present /\ hist[t].blocked),
                ![t].blocked = @ \/ (c > 0),
                ![t].dispatched = @ \/ present,
                ![t].failedStep = IF present /\ o = "false" THEN step[t] ELSE @,
                ![t].raisedStep = IF present /\ o = "raise" THEN step[t] ELSE @,
                ![t].failed = @ \/ (present /\ o = "false"),
                ![t].raised = @ \/ (present /\ o = "raise")]
    /\ IF fx[t] < Len(EffectOrder)
       THEN /\ fx' = [fx EXCEPT ![t] = @ + 1]
            /\ UNCHANGED pc
       ELSE /\ pc' = [pc EXCEPT ![t] = "step_wait"]
            /\ fx' = [fx EXCEPT ![t] = 1]
    /\ UNCHANGED <<program, SEQUENCE_RUNNING, SYSTEM_INITIALIZED, nsteps, step, cidx,
                   ncleanup, result, duration>>
    /\ UNCHANGED <<last_sequence_time, current_time, distance, retry_count, reading, det>>
    /\ UNCHANGED <<motorVars, deviceVars>>
    /\ UNCHANGED callVars

\* execute_step: return False if the effects failed, else sleep(duration) and return
\* True; execute_scene: return False at a failed step, else the next step or True
StepWait(t) ==
    /\ pc[t] = "step_wait"
    /\ LET after == SceneAfterStep(success[t], step[t], nsteps[t]) IN
         IF after = "next_step"
         THEN /\ step' = [step EXCEPT ![t] = @ + 1]
              /\ pc' = [pc EXCEPT ![t] = "step_begin"]
              /\ hist' = [hist EXCEPT ![t] = StepOver(@, TRUE)]
              /\ UNCHANGED <<success, duration>>
         ELSE /\ success' = [success EXCEPT ![t] = (after = "return_true")]
              /\ pc' = [pc EXCEPT ![t] = AfterScene(t)]
              /\ step' = [step EXCEPT ![t] = 0]
              /\ hist' = [hist EXCEPT ![t] = StepOver(@, FALSE)]
              /\ duration' = [duration EXCEPT ![t] = 0]
    /\ UNCHANGED <<program, SEQUENCE_RUNNING, SYSTEM_INITIALIZED, nsteps, fx, cidx,
                   ncleanup, result>>
    /\ Sleep(IF success[t] THEN StepSleep(duration[t]) ELSE 0)
    /\ UNCHANGED <<last_sequence_time, current_time, distance, retry_count, reading, det>>
    /\ UNCHANGED <<motorVars, deviceVars>>
    /\ UNCHANGED callVars

\* execute_emergency_cleanup: one cleanup action, or the end of the loop
Cleanup(t) ==
    /\ pc[t] = "cleanup"
    /\ IF cidx[t] > ncleanup
       THEN /\ pc' = [pc EXCEPT ![t] = "ret"]
            /\ cidx' = [cidx EXCEPT ![t] = 1]
            /\ UNCHANGED hist
       ELSE \E o \in {"ok", "raise"} :
              LET after == CleanupAfter(cidx[t], o) IN
              /\ cidx' = [cidx EXCEPT ![t] = after.next]
              /\ hist' = [hist EXCEPT
                     ![t].attempted = Append(@, cidx[t]),
                     ![t].caught = IF o = "raise" /\ ~after.escaped THEN @ + 1 ELSE @,
                     ![t].escaped = @ \/ after.escaped]
              /\ UNCHANGED pc
    /\ UNCHANGED <<program, SEQUENCE_RUNNING, SYSTEM_INITIALIZED, nsteps, step, fx,
                   success, ncleanup, result>>
    /\ UNCHANGED <<duration, detectVars, motorVars, deviceVars>>
    /\ UNCHANGED callVars

-----------------------------------------------------------------------------
(* run_scene, run_scene.py *)

\* initialize_system(); scene_manager.execute_scene(scene_name)
CliStart ==
    /\ program = "run_scene"
    /\ pc["cli"] = "idle"
    /\ ~hist["cli"].accepted
    /\ \E initok \in BOOLEAN :
         IF initok
         THEN /\ SYSTEM_INITIALIZED' = TRUE
              /\ \E n \in SceneLens : nsteps' = [nsteps EXCEPT !["cli"] = n]
              /\ pc' = [pc EXCEPT !["cli"] = "es_start"]
              /\ UNCHANGED success
         ELSE /\ success' = [success EXCEPT !["cli"] = FALSE]
              /\ pc' = [pc EXCEPT !["cli"] = "cli_finally"]
              /\ UNCHANGED <<SYSTEM_INITIALIZED, nsteps>>
    /\ hist' = [hist EXCEPT !["cli"].accepted = TRUE]
    /\ UNCHANGED <<program, SEQUENCE_RUNNING, step, fx, cidx, ncleanup, result>>
    /\ UNCHANGED <<duration, detectVars, motorVars, deviceVars>>
    /\ UNCHANGED callVars

\* return success; finally: cleanup_hardware()
CliFinally ==
    /\ pc["cli"] = "cli_finally"
    /\ result' = [result EXCEPT !["cli"] = success["cli"]]
    /\ SYSTEM_INITIALIZED' = FALSE
    /\ pc' = [pc EXCEPT !["cli"] = "ret"]
    /\ hist' = [hist EXCEPT !["cli"] = SceneOver(@)]
    /\ nsteps' = [nsteps EXCEPT !["cli"] = 0]
    /\ success' = [success EXCEPT !["cli"] = FALSE]
    /\ UNCHANGED <<program, SEQUENCE_RUNNING, step, fx, cidx, ncleanup>>
    /\ UNCHANGED <<duration, detectVars, motorVars, deviceVars>>
    /\ UNCHANGED callVars

-----------------------------------------------------------------------------
(* Callers of run_halloween_sequence *)

\* a unit of the process calls run_halloween_sequence()
Request(t) ==
    /\ program = "requests"
    /\ pc[t] = "idle"
    /\ pc' = [pc EXCEPT ![t] = "rhs_guard"]
    /\ hist' = [hist EXCEPT ![t] = NoHist]
    /\ UNCHANGED <<program, SEQUENCE_RUNNING, SYSTEM_INITIALIZED, nsteps, step, fx,
                   success, cidx, ncleanup, result>>
    /\ UNCHANGED <<duration, detectVars, motorVars, deviceVars>>
    /\ UNCHANGED callVars

\* the call has returned to its caller
Return(t) ==
    /\ program = "requests"
    /\ pc[t] = "ret"
    /\ pc' = [pc EXCEPT ![t] = "idle"]
    /\ hist' = [hist EXCEPT ![t] = NoHist]
    /\ result' = [result EXCEPT ![t] = FALSE]
    /\ UNCHANGED <<program, SEQUENCE_RUNNING, SYSTEM_INITIALIZED, nsteps, step, fx,
                   success, cidx, ncleanup>>
    /\ UNCHANGED <<duration, detectVars, motorVars, deviceVars>>
    /\ UNCHANGED callVars

EngineInit ==
    /\ program \in {"requests", "run_scene"}
    /\ pc = [t \in Threads |-> "idle"]
    /\ SEQUENCE_RUNNING = FALSE
    /\ SYSTEM_INITIALIZED = (program # "run_scene")
    /\ nsteps = [t \in Threads |-> 0]
    /\ step = [t \in Threads |-> 0]
    /\ fx = [t \in Threads |-> 1]
    /\ success = [t \in Threads |-> FALSE]
    /\ cidx = [t \in Threads |-> 1]
    /\ ncleanup \in 0..MaxCleanup
    /\ result = [t \in Threads |-> FALSE]
    /\ hist = [t \in Threads |-> NoHist]
    /\ duration = [t \in Threads |-> 0]

NoDet == [triggers |-> 0,       \* triggers so far, counted up to 2
          last     |-> None,    \* time of the latest trigger
          lastOk   |-> None,    \* time of the latest trigger whose run returned True
          gap      |-> None,    \* at the latest trigger: time since the trigger before
          afterOk  |-> FALSE,   \* the run before the latest trigger returned True
          zone     |-> 0,       \* farthest zone measured since the latest trigger
          zoneAt   |-> 0,       \* zone when the latest trigger fired
          ended    |-> None,    \* time the latest run returned True, until the next trigger
          interrupted |-> FALSE] \* a KeyboardInterrupt is on its way to main's handler

DetectIdle ==
    /\ now = 0
    /\ last_sequence_time = 0
    /\ current_time = 0
    /\ distance = None
    /\ retry_count = 0
    /\ reading = <<None, None>>
    /\ det = NoDet

MotorIdle ==
    /\ forward_pin = LOW
    /\ reverse_pin = LOW
    /\ mpc = [u \in Units |-> "idle"]
    /\ mdir = [u \in Units |-> "forward"]
    /\ mret = [u \in Units |-> "none"]

\* MP3Player.__init__: is_playing = False, no thread
AudioIdle ==
    /\ is_playing = [p \in Players |-> FALSE]
    /\ playback = [p \in Players |-> [k \in Slots |-> "none"]]
    /\ aret = [p \in Players |-> "none"]

\* Relay.__init__ with initial_state False: the pin is at the level that means OFF
RelayIdle ==
    /\ active_high = TRUE
    /\ relay_state = FALSE
    /\ relay_pin = LOW
    /\ rpc = [u \in RelayUnits |-> "idle"]
    /\ rop = [u \in RelayUnits |-> "off"]
    /\ rret = "none"
    /\ rwas = FALSE
    /\ rdur = 0
    /\ rhit = FALSE

\* GoveeLight.__init__ sends nothing
LightIdle ==
    /\ light_power = "off"
    /\ light_color = <<>>
    /\ lpc = "idle"
    /\ flash_left = 0
    /\ sent = <<>>
    /\ lret = "none"
    /\ lcall = [op |-> "none", args |-> <<>>]

DeviceIdle == AudioIdle /\ RelayIdle /\ LightIdle

NoLog == [called |-> <<>>, reached |-> {}, missing |-> {}, rejected |-> {}]

\* no execute_effects call is modelled at this level
BundleIdle ==
    /\ effects = <<>>
    /\ epos = 0
    /\ esuccess = TRUE
    /\ eret = "none"
    /\ elog = NoLog

\* no execute_emergency_cleanup call is modelled at this level
CleanupIdle ==
    /\ cleanup_actions = <<>>
    /\ cpos = 0
    /\ clog = {}

\* an empty scene configuration, and no scene chosen or looked up
SceneIdle ==
    /\ scenes = <<>>
    /\ alternative_sequences = <<>>
    /\ random_scene_mode = FALSE
    /\ random_scene_list = <<>>
    /\ scene_name = "unset"
    /\ random_choice = FALSE
    /\ qname = "unset"
    /\ scene_config = None
    /\ all_scenes = <<>>

\* no execute_sequence call is modelled at this level
SeqIdle ==
    /\ sequence_config = <<>>
    /\ action_index = 0
    /\ seq_log = <<>>
    /\ seq_ret = "none"

\* test.py is not running
ProbeIdle ==
    /\ distance_1 = None
    /\ distance_2 = None
    /\ tpc = "main"
    /\ test_distance = None
    /\ probes = 0

ToolIdle == SceneIdle /\ SeqIdle /\ ProbeIdle

CallIdle == BundleIdle /\ CleanupIdle /\ ToolIdle

Init == EngineInit /\ DetectIdle /\ MotorIdle /\ DeviceIdle /\ CallIdle

Next ==
    \/ \E t \in Callers : Request(t)
    \/ \E t \in Callers : RhsGuard(t)
    \/ \E t \in Callers : RhsSet(t)
    \/ \E t \in Callers : RhsFinally(t)
    \/ \E t \in Callers : Cleanup(t)
    \/ \E t \in Callers : Return(t)
    \/ CliStart
    \/ CliFinally
    \/ \E t \in Threads : EsStart(t)
    \/ \E t \in Threads : StepBegin(t)
    \/ \E t \in Threads : Dispatch(t)
    \/ \E t \in Threads : StepWait(t)

Spec == Init /\ [][Next]_vars

-----------------------------------------------------------------------------
(* Detection loop: get_shortest_distance and main, old_files/main.py *)

Min(a, b) == IF a <= b THEN a ELSE b
Max(a, b) == IF a >= b THEN a ELSE b

\* 0: inside the trigger distance, 1: up to the warning distance, 2: beyond it
Zone(d) == IF d < distance_threshold_near THEN 0 ELSE IF d <= warning_distance THEN 1 ELSE 2

\* if distance_1 is not None and distance_2 is not None
BothValid(d1, d2) == d1 # None /\ d2 # None

GsdFallbackNear == distance_threshold_near - 1

\* return get_config_value('detection', 'default_safe_distance', 200.0)
GsdFallback == default_safe_distance

\* if distance < distance_threshold_near and time_since_last_sequence >= cooldown_after_sequence
ShouldTrigger(d, since) == d < distance_threshold_near /\ since >= cooldown_after_sequence

\* get_shortest_distance: one pass of `while retry_count < max_retries`
LoopRead ==
    /\ program = "main"
    /\ pc["main"] = "loop_read"
    /\ \E d1 \in Readings, d2 \in Readings :
         /\ reading' = <<d1, d2>>
         /\ IF BothValid(d1, d2)
            THEN /\ distance' = Min(d1, d2)
                 /\ retry_count' = 0
                 /\ pc' = [pc EXCEPT !["main"] = "loop_check"]
            ELSE IF retry_count + 1 < max_sensor_retries
            THEN /\ retry_count' = retry_count + 1
                 /\ UNCHANGED <<distance, pc>>
            ELSE /\ distance' = GsdFallback
                 /\ retry_count' = 0
                 /\ pc' = [pc EXCEPT !["main"] = "loop_check"]
    /\ UNCHANGED <<program, SEQUENCE_RUNNING, SYSTEM_INITIALIZED, nsteps, step, fx,
                   success, cidx, ncleanup, result, hist>>
    /\ UNCHANGED <<now, last_sequence_time, current_time, det>>
    /\ UNCHANGED <<duration, motorVars, deviceVars>>
    /\ UNCHANGED callVars

\* main: current_time = time.time(); trigger run_halloween_sequence() or not.
\* distance and the readings are not read again before the next
\* get_shortest_distance, so a trigger drops them.
LoopCheck ==
    /\ program = "main"
    /\ pc["main"] = "loop_check"
    /\ current_time' = now
    /\ IF ShouldTrigger(distance, now - last_sequence_time)
       THEN /\ pc' = [pc EXCEPT !["main"] = "rhs_guard"]
            /\ hist' = [hist EXCEPT !["main"] = NoHist]
            /\ det' = [triggers |-> Min(det.triggers + 1, 2),
                       last     |-> now,
                       lastOk   |-> det.lastOk,
                       gap      |-> IF det.last = None THEN None ELSE now - det.last,
                       afterOk  |-> det.last # None /\ det.lastOk = det.last,
                       zone     |-> 0,
                       zoneAt   |-> det.zone,
                       ended    |-> None,
                       interrupted |-> FALSE]
            /\ distance' = None
            /\ reading' = <<None, None>>
       ELSE /\ pc' = [pc EXCEPT !["main"] = "loop_sleep"]
            /\ det' = [det EXCEPT !.zone = Max(@, Zone(distance))]
            /\ UNCHANGED <<hist, distance, reading>>
    /\ UNCHANGED <<program, SEQUENCE_RUNNING, SYSTEM_INITIALIZED, nsteps, step, fx,
                   success, cidx, ncleanup, result>>
    /\ UNCHANGED <<now, last_sequence_time, retry_count>>
    /\ UNCHANGED <<duration, motorVars, deviceVars>>
    /\ UNCHANGED callVars

\* main: if run_halloween_sequence(): last_sequence_time = current_time
LoopAfter ==
    /\ program = "main"
    /\ pc["main"] = "ret"
    /\ ~det.interrupted
    /\ IF result["main"]
       THEN /\ last_sequence_time' = current_time
            /\ det' = [det EXCEPT !.lastOk = det.last, !.ended = now]
       ELSE UNCHANGED <<last_sequence_time, det>>
    /\ pc' = [pc EXCEPT !["main"] = "loop_sleep"]
    /\ hist' = [hist EXCEPT !["main"] = [NoHist EXCEPT !.raised = hist["main"].raised]]
    /\ result' = [result EXCEPT !["main"] = FALSE]
    /\ UNCHANGED <<program, SEQUENCE_RUNNING, SYSTEM_INITIALIZED, nsteps, step, fx,
                   success, cidx, ncleanup>>
    /\ UNCHANGED <<now, current_time, distance, retry_count, reading>>
    /\ UNCHANGED <<duration, motorVars, deviceVars>>
    /\ UNCHANGED callVars

\* main: sleep(sensor_reading_interval)
LoopSleep ==
    /\ program = "main"
    /\ pc["main"] = "loop_sleep"
    /\ Sleep(1)
    /\ pc' = [pc EXCEPT !["main"] = "loop_read"]
    /\ UNCHANGED <<program, SEQUENCE_RUNNING, SYSTEM_INITIALIZED, nsteps, step, fx,
                   success, cidx, ncleanup, result, hist>>
    /\ UNCHANGED <<last_sequence_time, current_time, distance, retry_count, reading, det>>
    /\ UNCHANGED <<duration, motorVars, deviceVars>>
    /\ UNCHANGED callVars

AfterInitEntersLoop(ok) == "loop_read"

\* main: `if not initialize_system(): return 1`, and sys.exit(exit_code)
AfterInit(ok) == IF ok THEN "loop_read" ELSE "exit_1"

\* main: initialize_system() returns True with SYSTEM_INITIALIZED set, or False
\* (configuration, scene configuration or hardware failed) with it unset
MainStart ==
    /\ program = "main"
    /\ pc["main"] = "main_start"
    /\ \E ok \in BOOLEAN :
         /\ SYSTEM_INITIALIZED' = ok
         /\ pc' = [pc EXCEPT !["main"] = AfterInit(ok)]
    /\ UNCHANGED <<program, SEQUENCE_RUNNING, nsteps, step, fx, success, cidx, ncleanup,
                   result, hist>>
    /\ UNCHANGED <<duration, detectVars, motorVars, deviceVars, callVars>>

\* the statements of run_halloween_sequence's try block
InTry == {"es_start", "step_begin", "dispatch", "step_wait", "rhs_finally"}

\* KeyboardInterrupt is raised in the main thread. No `except Exception`
\* catches it: inside run_halloween_sequence's try block the finally clause
\* runs and the interrupt goes on to main; anywhere else main's handler is next.
\* main's locals and the observations of the loop are dead from here on.
Interrupt ==
    /\ program = "main"
    /\ ~det.interrupted
    /\ pc["main"] \notin {"main_start", "shutdown", "exit_0", "exit_1"}
    /\ pc' = [pc EXCEPT !["main"] = IF @ \in InTry THEN "rhs_finally" ELSE "shutdown"]
    /\ success' = [success EXCEPT !["main"] = FALSE]
    /\ step' = [step EXCEPT !["main"] = 0]
    /\ fx' = [fx EXCEPT !["main"] = 1]
    /\ cidx' = [cidx EXCEPT !["main"] = 1]
    /\ nsteps' = [nsteps EXCEPT !["main"] = 0]
    /\ duration' = [duration EXCEPT !["main"] = 0]
    /\ result' = [result EXCEPT !["main"] = FALSE]
    /\ hist' = [hist EXCEPT !["main"] = [NoHist EXCEPT !.cleanups = hist["main"].cleanups]]
    /\ det' = [NoDet EXCEPT !.interrupted = TRUE, !.triggers = det.triggers]
    /\ distance' = None
    /\ reading' = <<None, None>>
    /\ retry_count' = 0
    /\ current_time' = 0
    /\ last_sequence_time' = 0
    /\ UNCHANGED <<program, SEQUENCE_RUNNING, SYSTEM_INITIALIZED, ncleanup, now>>
    /\ UNCHANGED <<motorVars, deviceVars, callVars>>

\* main: except KeyboardInterrupt; finally: cleanup_hardware(); return 0.
\* cleanup_hardware unsets SYSTEM_INITIALIZED unless a plugin's cleanup raised.
Shutdown ==
    /\ program = "main"
    /\ pc["main"] = "shutdown" \/ (pc["main"] = "ret" /\ det.interrupted)
    /\ \E ok \in BOOLEAN :
         SYSTEM_INITIALIZED' = IF ok THEN FALSE ELSE SYSTEM_INITIALIZED
    /\ pc' = [pc EXCEPT !["main"] = "exit_0"]
    /\ result' = [result EXCEPT !["main"] = FALSE]
    /\ UNCHANGED <<program, SEQUENCE_RUNNING, nsteps, step, fx, success, cidx, ncleanup,
                   hist>>
    /\ UNCHANGED <<duration, detectVars, motorVars, deviceVars, callVars>>

\* main() is entered; time.time() is far beyond the cooldown window, so the
\* first check of the cooldown passes
InitDetect ==
    /\ program = "main"
    /\ pc = [t \in Threads |-> IF t = "main" THEN "main_start" ELSE "idle"]
    /\ SEQUENCE_RUNNING = FALSE
    /\ SYSTEM_INITIALIZED = FALSE
    /\ nsteps = [t \in Threads |-> 0]
    /\ step = [t \in Threads |-> 0]
    /\ fx = [t \in Threads |-> 1]
    /\ success = [t \in Threads |-> FALSE]
    /\ cidx = [t \in Threads |-> 1]
    /\ ncleanup \in 0..MaxCleanup
    /\ result = [t \in Threads |-> FALSE]
    /\ hist = [t \in Threads |-> NoHist]
    /\ duration = [t \in Threads |-> 0]
    /\ now = cooldown_after_sequence
    /\ last_sequence_time = 0
    /\ current_time = 0
    /\ distance = None
    /\ retry_count = 0
    /\ reading = <<None, None>>
    /\ det = NoDet
    /\ MotorIdle
    /\ DeviceIdle
    /\ CallIdle

NextDetect ==
    \/ MainStart
    \/ Interrupt
    \/ Shutdown
    \/ LoopRead
    \/ LoopCheck
    \/ LoopAfter
    \/ LoopSleep
    \/ RhsGuard("main")
    \/ RhsSet("main")
    \/ EsStart("main")
    \/ StepBegin("main")
    \/ Dispatch("main")
    \/ StepWait("main")
    \/ RhsFinally("main")
    \/ Cleanup("main")

SpecDetect == InitDetect /\ [][NextDetect]_vars

-----------------------------------------------------------------------------
(* Motor.move_forward / Motor.move_reverse, plugins/motor.py *)

Other(dir) == IF dir = "forward" THEN "reverse" ELSE "forward"

\* GPIO.output(pin, level) that did not raise
Output(dir, level) ==
    IF dir = "forward"
    THEN forward_pin' = level /\ UNCHANGED reverse_pin
    ELSE reverse_pin' = level /\ UNCHANGED forward_pin

\* a unit calls move_forward(duration) or move_reverse(duration); a motor that is
\* not initialized or a duration out of range raises before any output
MoveCall(u) ==
    /\ program = "motor"
    /\ mpc[u] = "idle"
    /\ \E dir \in {"forward", "reverse"}, valid \in BOOLEAN :
         IF valid
         THEN /\ mdir' = [mdir EXCEPT ![u] = dir]
              /\ mpc' = [mpc EXCEPT ![u] = "other_low"]
              /\ mret' = [mret EXCEPT ![u] = "none"]
         ELSE /\ mret' = [mret EXCEPT ![u] = "raised"]
              /\ UNCHANGED <<mdir, mpc>>
    /\ UNCHANGED <<forward_pin, reverse_pin>>
    /\ UNCHANGED <<engineVars, duration, detectVars, deviceVars>>
    /\ UNCHANGED callVars

\* GPIO.output(<other pin>, GPIO.LOW)
MoveOtherLow(u) ==
    /\ mpc[u] = "other_low"
    /\ \E ok \in BOOLEAN :
         IF ok
         THEN /\ Output(Other(mdir[u]), LOW)
              /\ mpc' = [mpc EXCEPT ![u] = "own_high"]
         ELSE /\ mpc' = [mpc EXCEPT ![u] = "stop_forward"]
              /\ UNCHANGED <<forward_pin, reverse_pin>>
    /\ UNCHANGED <<mdir, mret>>
    /\ UNCHANGED <<engineVars, duration, detectVars, deviceVars>>
    /\ UNCHANGED callVars

\* GPIO.output(<own pin>, GPIO.HIGH)
MoveOwnHigh(u) ==
    /\ mpc[u] = "own_high"
    /\ \E ok \in BOOLEAN :
         IF ok
         THEN /\ Output(mdir[u], HIGH)
              /\ mpc' = [mpc EXCEPT ![u] = "own_low"]
         ELSE /\ mpc' = [mpc EXCEPT ![u] = "stop_forward"]
              /\ UNCHANGED <<forward_pin, reverse_pin>>
    /\ UNCHANGED <<mdir, mret>>
    /\ UNCHANGED <<engineVars, duration, detectVars, deviceVars>>
    /\ UNCHANGED callVars

\* time.sleep(duration); GPIO.output(<own pin>, GPIO.LOW); return True
MoveOwnLow(u) ==
    /\ mpc[u] = "own_low"
    /\ \E ok \in BOOLEAN :
         IF ok
         THEN /\ Output(mdir[u], LOW)
              /\ mpc' = [mpc EXCEPT ![u] = "idle"]
              /\ mret' = [mret EXCEPT ![u] = "true"]
         ELSE /\ mpc' = [mpc EXCEPT ![u] = "stop_forward"]
              /\ UNCHANGED <<forward_pin, reverse_pin, mret>>
    /\ UNCHANGED mdir
    /\ UNCHANGED <<engineVars, duration, detectVars, deviceVars>>
    /\ UNCHANGED callVars

\* except: _stop_motor(): GPIO.output(forward_pin, GPIO.LOW); if it raises,
\* _stop_motor logs and returns, and the move returns False
StopForward(u) ==
    /\ mpc[u] = "stop_forward"
    /\ \E ok \in BOOLEAN :
         IF ok
         THEN /\ forward_pin' = LOW
              /\ mpc' = [mpc EXCEPT ![u] = "stop_reverse"]
              /\ UNCHANGED mret
         ELSE /\ mpc' = [mpc EXCEPT ![u] = "idle"]
              /\ mret' = [mret EXCEPT ![u] = "false"]
              /\ UNCHANGED forward_pin
    /\ UNCHANGED <<reverse_pin, mdir>>
    /\ UNCHANGED <<engineVars, duration, detectVars, deviceVars>>
    /\ UNCHANGED callVars

\* _stop_motor(): GPIO.output(reverse_pin, GPIO.LOW); the move returns False
StopReverse(u) ==
    /\ mpc[u] = "stop_reverse"
    /\ \E ok \in BOOLEAN : reverse_pin' = IF ok THEN LOW ELSE reverse_pin
    /\ mpc' = [mpc EXCEPT ![u] = "idle"]
    /\ mret' = [mret EXCEPT ![u] = "false"]
    /\ UNCHANGED <<forward_pin, mdir>>
    /\ UNCHANGED <<engineVars, duration, detectVars, deviceVars>>
    /\ UNCHANGED callVars

\* Motor.__init__ has run: both outputs LOW
InitMotor ==
    /\ program = "motor"
    /\ pc = [t \in Threads |-> "idle"]
    /\ SEQUENCE_RUNNING = FALSE
    /\ SYSTEM_INITIALIZED = TRUE
    /\ nsteps = [t \in Threads |-> 0]
    /\ step = [t \in Threads |-> 0]
    /\ fx = [t \in Threads |-> 1]
    /\ success = [t \in Threads |-> FALSE]
    /\ cidx = [t \in Threads |-> 1]
    /\ ncleanup = 0
    /\ result = [t \in Threads |-> FALSE]
    /\ hist = [t \in Threads |-> NoHist]
    /\ duration = [t \in Threads |-> 0]
    /\ DetectIdle
    /\ MotorIdle
    /\ DeviceIdle
    /\ CallIdle

NextMotor ==
    \/ \E u \in Units : MoveCall(u)
    \/ \E u \in Units : MoveOtherLow(u)
    \/ \E u \in Units : MoveOwnHigh(u)
    \/ \E u \in Units : MoveOwnLow(u)
    \/ \E u \in Units : StopForward(u)
    \/ \E u \in Units : StopReverse(u)

SpecMotor == InitMotor /\ [][NextMotor]_vars

-----------------------------------------------------------------------------
(* MP3Player.play / _play_in_thread / stop, plugins/music_player.py *)

\* no scene, no detection loop and no move in progress
EngineIdle ==
    /\ pc = [t \in Threads |-> "idle"]
    /\ SEQUENCE_RUNNING = FALSE
    /\ SYSTEM_INITIALIZED = TRUE
    /\ nsteps = [t \in Threads |-> 0]
    /\ step = [t \in Threads |-> 0]
    /\ fx = [t \in Threads |-> 1]
    /\ success = [t \in Threads |-> FALSE]
    /\ cidx = [t \in Threads |-> 1]
    /\ ncleanup = 0
    /\ result = [t \in Threads |-> FALSE]
    /\ hist = [t \in Threads |-> NoHist]
    /\ duration = [t \in Threads |-> 0]
    /\ DetectIdle
    /\ MotorIdle
    /\ CallIdle

FreeSlots(p) == {k \in Slots : playback[p][k] = "none"}

\* play(): if self.is_playing: return False; if the file is gone: return False;
\* else start a thread on _play_in_thread and return True (False if starting raises)
Play(p) ==
    /\ FreeSlots(p) # {}
    /\ IF is_playing[p]
       THEN /\ aret' = [aret EXCEPT ![p] = "false"]
            /\ UNCHANGED playback
       ELSE \E started \in BOOLEAN :
              IF started
              THEN /\ playback' = [playback EXCEPT
                                      ![p][CHOOSE k \in FreeSlots(p) : TRUE] = "started"]
                   /\ aret' = [aret EXCEPT ![p] = "true"]
              ELSE /\ aret' = [aret EXCEPT ![p] = "false"]
                   /\ UNCHANGED playback
    /\ UNCHANGED is_playing
    /\ UNCHANGED <<engineVars, duration, detectVars, motorVars, relayVars, lightVars>>
    /\ UNCHANGED callVars

\* _play_in_thread up to pygame.mixer.music.play(): self.is_playing = True; with no
\* audio device or a pygame error the thread ends through finally: is_playing = False
PlayThreadBegin(p, k) ==
    /\ playback[p][k] = "started"
    /\ \E ok \in BOOLEAN :
         IF ok
         THEN /\ is_playing' = [is_playing EXCEPT ![p] = TRUE]
              /\ playback' = [playback EXCEPT ![p][k] = "playing"]
         ELSE /\ is_playing' = [is_playing EXCEPT ![p] = FALSE]
              /\ playback' = [playback EXCEPT ![p][k] = "none"]
    /\ UNCHANGED aret
    /\ UNCHANGED <<engineVars, duration, detectVars, motorVars, relayVars, lightVars>>
    /\ UNCHANGED callVars

\* _play_in_thread: the wait loop ends (the music is over or is_playing was
\* cleared); finally: self.is_playing = False
PlayThreadEnd(p, k) ==
    /\ playback[p][k] = "playing"
    /\ is_playing' = [is_playing EXCEPT ![p] = FALSE]
    /\ playback' = [playback EXCEPT ![p][k] = "none"]
    /\ UNCHANGED aret
    /\ UNCHANGED <<engineVars, duration, detectVars, motorVars, relayVars, lightVars>>
    /\ UNCHANGED callVars

\* stop(): if self.is_playing: pygame.mixer.music.stop(); self.is_playing = False
AudioStop(p) ==
    /\ is_playing[p]
    /\ is_playing' = [is_playing EXCEPT ![p] = FALSE]
    /\ UNCHANGED <<playback, aret>>
    /\ UNCHANGED <<engineVars, duration, detectVars, motorVars, relayVars, lightVars>>
    /\ UNCHANGED callVars

InitAudio ==
    /\ program = "audio"
    /\ EngineIdle
    /\ DeviceIdle

NextAudio ==
    \/ \E p \in Players : Play(p)
    \/ \E p \in Players, k \in Slots : PlayThreadBegin(p, k)
    \/ \E p \in Players, k \in Slots : PlayThreadEnd(p, k)
    \/ \E p \in Players : AudioStop(p)

SpecAudio == InitAudio /\ [][NextAudio]_vars

-----------------------------------------------------------------------------
(* Relay.on / Relay.off and the timed_off thread of execute_relay_effect *)

\* _set_gpio_state: HIGH means ON for an active-high relay, LOW for an active-low one
PinLevel(ah, state) ==
    IF ah THEN (IF state THEN HIGH ELSE LOW) ELSE (IF state THEN LOW ELSE HIGH)

StateAfterToggle(op, cur) == ~cur

\* on(): self.state = True; off(): self.state = False
StateAfter(op, cur) == op = "on"

TimedOffNever(action, d) == FALSE

\* execute_relay_effect: `if duration > 0 and action == 'on'` starts timed_off;
\* Relay.timed_on(duration) always starts turn_off_after_delay after on()
TimedOff(action, d) == d > 0 /\ action = "on"

Busy(u) == rpc[u] \in {"state", "gpio"}

\* the scene thread calls relay.on() or relay.off() (execute_relay_effect,
\* emergency cleanup)
RelayCall ==
    /\ rpc[0] = "idle"
    /\ \E op \in {"on", "off"}, d \in 0..MaxDuration :
         /\ TimedOff(op, d) => \E k \in Timers : rpc[k] = "idle"
         /\ rop' = [rop EXCEPT ![0] = op]
         /\ rdur' = d
         /\ rwas' = (relay_state = (op = "on") /\ relay_pin = PinLevel(active_high, relay_state))
    /\ rpc' = [rpc EXCEPT ![0] = "state"]
    /\ rret' = "none"
    /\ rhit' = FALSE
    /\ UNCHANGED <<active_high, relay_state, relay_pin>>
    /\ UNCHANGED <<engineVars, duration, detectVars, motorVars, audioVars, lightVars>>
    /\ UNCHANGED callVars

\* on() / off(): the assignment to self.state
RelayWriteState(u) ==
    /\ rpc[u] = "state"
    /\ relay_state' = StateAfter(rop[u], relay_state)
    /\ rpc' = [rpc EXCEPT ![u] = "gpio"]
    /\ rhit' = (rhit \/ (u # 0 /\ Busy(0)))
    /\ UNCHANGED <<active_high, relay_pin, rop, rret, rwas, rdur>>
    /\ UNCHANGED <<engineVars, duration, detectVars, motorVars, audioVars, lightVars>>
    /\ UNCHANGED callVars

\* on() / off(): _set_gpio_state(True / False), which logs and swallows a GPIO
\* error, then return True. After on() the relay effect starts a timed_off
\* thread when the effect has a duration > 0, and returns without joining it.
RelayWriteGpio(u) ==
    /\ rpc[u] = "gpio"
    /\ \E ok \in BOOLEAN :
         relay_pin' = IF ok THEN PinLevel(active_high, rop[u] = "on") ELSE relay_pin
    /\ IF u = 0
       THEN /\ rret' = "true"
            /\ IF TimedOff(rop[0], rdur)
               THEN rpc' = [rpc EXCEPT ![0] = "idle",
                                       ![CHOOSE k \in Timers : rpc[k] = "idle"] = "sleep"]
               ELSE rpc' = [rpc EXCEPT ![0] = "idle"]
       ELSE /\ rpc' = [rpc EXCEPT ![u] = "idle"]
            /\ UNCHANGED rret
    /\ UNCHANGED <<active_high, relay_state, rop, rwas, rdur, rhit>>
    /\ UNCHANGED <<engineVars, duration, detectVars, motorVars, audioVars, lightVars>>
    /\ UNCHANGED callVars

\* timed_off: time.sleep(duration) is over, relay.off() is called
TimerWake(k) ==
    /\ rpc[k] = "sleep"
    /\ rop' = [rop EXCEPT ![k] = "off"]
    /\ rpc' = [rpc EXCEPT ![k] = "state"]
    /\ UNCHANGED <<active_high, relay_state, relay_pin, rret, rwas, rdur, rhit>>
    /\ UNCHANGED <<engineVars, duration, detectVars, motorVars, audioVars, lightVars>>
    /\ UNCHANGED callVars

\* Relay(pin, active_high, initial_state=False)
InitRelay ==
    /\ program = "relay"
    /\ EngineIdle
    /\ AudioIdle
    /\ LightIdle
    /\ active_high \in BOOLEAN
    /\ relay_state = FALSE
    /\ relay_pin = PinLevel(active_high, FALSE)
    /\ rpc = [u \in RelayUnits |-> "idle"]
    /\ rop = [u \in RelayUnits |-> "off"]
    /\ rret = "none"
    /\ rwas = FALSE
    /\ rdur = 0
    /\ rhit = FALSE

NextRelay ==
    \/ RelayCall
    \/ \E u \in RelayUnits : RelayWriteState(u)
    \/ \E u \in RelayUnits : RelayWriteGpio(u)
    \/ \E k \in Timers : TimerWake(k)

SpecRelay == InitRelay /\ [][NextRelay]_vars

\* the timed_off thread is a thread of the running process: its sleep ends and
\* its relay.off() runs to the end
SpecRelayFair ==
    /\ SpecRelay
    /\ \A k \in Timers : /\ WF_vars(TimerWake(k))
                         /\ WF_vars(RelayWriteState(k))
                         /\ WF_vars(RelayWriteGpio(k))

-----------------------------------------------------------------------------
(* GoveeLight.turn_on / turn_off / set_color / flash, plugins/govee_plugin.py *)

ValidateColorValueAny(value) == TRUE

\* _validate_color_value: MIN_COLOR_VALUE <= value <= MAX_COLOR_VALUE
ValidateColorValue(value) == MIN_COLOR_VALUE <= value /\ value <= MAX_COLOR_VALUE

FlashCyclesShort(amount) == amount - 1

\* flash: for i in range(amount)
FlashCycles(amount) == amount

\* turn_on() / turn_off(): return self.send_command({"cmd": "turn", "value": 1 / 0});
\* send_command returns False when the socket raises
Turn(v) ==
    /\ lpc = "idle"
    /\ lcall' = [op |-> v, args |-> <<>>]
    /\ sent' = <<v>>
    /\ \E ok \in BOOLEAN :
         /\ light_power' = IF ok THEN (IF v = "turn_on" THEN "on" ELSE "off") ELSE light_power
         /\ lret' = IF ok THEN "true" ELSE "false"
    /\ UNCHANGED <<light_color, lpc, flash_left>>
    /\ UNCHANGED <<engineVars, duration, detectVars, motorVars, audioVars, relayVars>>
    /\ UNCHANGED callVars

\* set_color(red, green, blue): return False if a channel is not valid, else
\* return self.send_command({"cmd": "colorwc", ...})
SetColor ==
    /\ lpc = "idle"
    /\ \E red \in Channel, green \in Channel, blue \in Channel :
         /\ lcall' = [op |-> "set_color", args |-> <<red, green, blue>>]
         /\ IF ~ValidateColorValue(red) \/ ~ValidateColorValue(green) \/ ~ValidateColorValue(blue)
            THEN /\ lret' = "false"
                 /\ sent' = <<>>
                 /\ UNCHANGED light_color
            ELSE /\ sent' = <<"colorwc">>
                 /\ \E ok \in BOOLEAN :
                      /\ light_color' = IF ok THEN <<red, green, blue>> ELSE light_color
                      /\ lret' = IF ok THEN "true" ELSE "false"
    /\ UNCHANGED <<light_power, lpc, flash_left>>
    /\ UNCHANGED <<engineVars, duration, detectVars, motorVars, audioVars, relayVars>>
    /\ UNCHANGED callVars

\* flash(amount): if amount <= 0: return False; success = True; enter the loop
FlashCall ==
    /\ lpc = "idle"
    /\ \E amount \in 0..MaxFlash :
         /\ lcall' = [op |-> "flash", args |-> <<amount>>]
         /\ sent' = <<>>
         /\ IF amount <= 0
            THEN /\ lret' = "false"
                 /\ UNCHANGED <<lpc, flash_left>>
            ELSE /\ lret' = "true"
                 /\ flash_left' = FlashCycles(amount)
                 /\ lpc' = IF FlashCycles(amount) > 0 THEN "flash_off" ELSE "idle"
    /\ UNCHANGED <<light_power, light_color>>
    /\ UNCHANGED <<engineVars, duration, detectVars, motorVars, audioVars, relayVars>>
    /\ UNCHANGED callVars

\* flash: if not self.turn_off(): success = False; time.sleep(delay)
FlashOff ==
    /\ lpc = "flash_off"
    /\ sent' = Append(sent, "turn_off")
    /\ \E ok \in BOOLEAN :
         /\ light_power' = IF ok THEN "off" ELSE light_power
         /\ lret' = IF ok THEN lret ELSE "false"
    /\ lpc' = "flash_on"
    /\ UNCHANGED <<light_color, flash_left, lcall>>
    /\ UNCHANGED <<engineVars, duration, detectVars, motorVars, audioVars, relayVars>>
    /\ UNCHANGED callVars

\* flash: if not self.turn_on(): success = False; time.sleep(delay); the next
\* iteration, or return success
FlashOn ==
    /\ lpc = "flash_on"
    /\ sent' = Append(sent, "turn_on")
    /\ \E ok \in BOOLEAN :
         /\ light_power' = IF ok THEN "on" ELSE light_power
         /\ lret' = IF ok THEN lret ELSE "false"
    /\ flash_left' = flash_left - 1
    /\ lpc' = IF flash_left - 1 > 0 THEN "flash_off" ELSE "idle"
    /\ UNCHANGED <<light_color, lcall>>
    /\ UNCHANGED <<engineVars, duration, detectVars, motorVars, audioVars, relayVars>>
    /\ UNCHANGED callVars

InitLight ==
    /\ program = "light"
    /\ EngineIdle
    /\ DeviceIdle

NextLight ==
    \/ \E v \in {"turn_on", "turn_off"} : Turn(v)
    \/ SetColor
    \/ FlashCall
    \/ FlashOff
    \/ FlashOn

SpecLight == InitLight /\ [][NextLight]_vars

-----------------------------------------------------------------------------
(* SceneManager.execute_effects on one Effects bundle and the four effect
   executors it calls, scene_manager.py:235-433 *)

Range(s) == {s[i] : i \in 1..Len(s)}

RECURSIVE Perms(_)
Perms(S) ==
    IF S = {} THEN {<<>>}
    ELSE UNION {{<<x>> \o q : q \in Perms(S \ {x})} : x \in S}

\* the `effects` dicts of a step: any of the four keys, in any order
Bundles == UNION {Perms(S) : S \in SUBSET Range(EffectOrder)}

\* what an effect's configuration is to its executor and plugin:
\*   "valid"      well formed and accepted by the plugin
\*   "rejected"   well formed, a value is refused by the plugin's validation:
\*                a colour channel outside 0..255 (set_color returns False), a
\*                volume outside 0..1 (set_volume returns False), a motor
\*                duration outside MIN_DURATION..MAX_DURATION (ValueError)
\*   "malformed"  refused by the executor itself: len(color) != 3, no `file`,
\*                an unknown `action`, no relay `name`
ConfigKinds(e) ==
    IF e = "relay" THEN {"valid", "malformed"} ELSE {"valid", "rejected", "malformed"}

DispatchOrderKeys(keys) == keys

\* execute_effects tests 'lights', 'audio', 'motor', 'relay' in this order,
\* whatever the order of the keys
DispatchOrder(keys) == EffectOrder

AfterEffectStop(pos, ok, n) == IF ok THEN pos + 1 ELSE n + 1

\* execute_effects goes on to the next `if ... in effects` block whatever the
\* executor returned
AfterEffect(pos, ok, n) == pos + 1

\* execute_light_effect: the results of turn_on, set_color, flash and turn_off
\* are not part of the returned value
LightEffectResult(ref, cfg, dev) == ref /\ cfg # "malformed"

\* execute_audio_effect: set_volume's result is dropped, play()'s is returned
AudioEffectResult(ref, cfg, dev) == ref /\ cfg # "malformed" /\ dev

\* execute_motor_effect: returns move_forward / move_reverse; their ValueError
\* is caught and gives False
MotorEffectResult(ref, cfg, dev) == ref /\ cfg = "valid" /\ dev

\* execute_relay_effect: returns relay.on() / relay.off()
RelayEffectResult(ref, cfg, dev) == ref /\ cfg # "malformed" /\ dev

EffectResult(e, ref, cfg, dev) ==
    CASE e = "lights" -> LightEffectResult(ref, cfg, dev)
      [] e = "audio"  -> AudioEffectResult(ref, cfg, dev)
      [] e = "motor"  -> MotorEffectResult(ref, cfg, dev)
      [] e = "relay"  -> RelayEffectResult(ref, cfg, dev)

\* the step calls execute_effects(effects): success = True
ExecuteEffects ==
    /\ program = "effects"
    /\ epos = 0
    /\ effects' \in Bundles
    /\ epos' = 1
    /\ esuccess' = TRUE
    /\ eret' = "none"
    /\ elog' = NoLog
    /\ UNCHANGED <<engineVars, duration, detectVars, motorVars, deviceVars, cleanupVars, toolVars>>

\* `if e in effects` is true: execute_<e>_effect(effects[e]) is called; ref is
\* whether its hardware reference is set, cfg its configuration, dev what the
\* plugin call returns
ExecuteEffect(e) ==
    /\ program = "effects"
    /\ epos \in 1..Len(DispatchOrder(effects))
    /\ DispatchOrder(effects)[epos] = e
    /\ e \in Range(effects)
    /\ \E ref \in BOOLEAN, cfg \in ConfigKinds(e), dev \in BOOLEAN :
         LET r == EffectResult(e, ref, cfg, dev)
             atPlugin == ref /\ cfg # "malformed"
         IN /\ esuccess' = (esuccess /\ r)
            /\ epos' = AfterEffect(epos, r, Len(DispatchOrder(effects)))
            /\ elog' = [called   |-> Append(elog.called, e),
                        reached  |-> IF atPlugin THEN elog.reached \cup {e} ELSE elog.reached,
                        missing  |-> IF ref THEN elog.missing ELSE elog.missing \cup {e},
                        rejected |-> IF atPlugin /\ cfg = "rejected"
                                     THEN elog.rejected \cup {e} ELSE elog.rejected]
    /\ UNCHANGED <<effects, eret>>
    /\ UNCHANGED <<engineVars, duration, detectVars, motorVars, deviceVars, cleanupVars, toolVars>>

ExecuteLightEffect == ExecuteEffect("lights")

ExecuteAudioEffect == ExecuteEffect("audio")

ExecuteMotorEffect == ExecuteEffect("motor")

ExecuteRelayEffect == ExecuteEffect("relay")

\* `if e in effects` is false
EffectAbsent ==
    /\ program = "effects"
    /\ epos \in 1..Len(DispatchOrder(effects))
    /\ DispatchOrder(effects)[epos] \notin Range(effects)
    /\ epos' = epos + 1
    /\ UNCHANGED <<effects, esuccess, eret, elog>>
    /\ UNCHANGED <<engineVars, duration, detectVars, motorVars, deviceVars, cleanupVars, toolVars>>

\* return success
EffectsReturn ==
    /\ program = "effects"
    /\ epos > Len(DispatchOrder(effects))
    /\ eret' = IF esuccess THEN "true" ELSE "false"
    /\ epos' = 0
    /\ UNCHANGED <<effects, esuccess, elog>>
    /\ UNCHANGED <<engineVars, duration, detectVars, motorVars, deviceVars, cleanupVars, toolVars>>

InitEffects ==
    /\ program = "effects"
    /\ EngineIdle
    /\ DeviceIdle

NextEffects ==
    \/ ExecuteEffects
    \/ ExecuteLightEffect
    \/ ExecuteAudioEffect
    \/ ExecuteMotorEffect
    \/ ExecuteRelayEffect
    \/ EffectAbsent
    \/ EffectsReturn

SpecEffects == InitEffects /\ [][NextEffects]_vars

-----------------------------------------------------------------------------
(* SceneManager.execute_emergency_cleanup and what it does to the relay, the
   motor and the lights, scene_manager.py:435-469 *)

CleanupTypes == {"relay_off", "motor_close", "lights_off"}

\* error_handling.emergency_cleanup: a list from the configuration, [] when
\* the key is absent
CleanupLists == UNION {Perms(S) : S \in SUBSET CleanupTypes}

\* execute_emergency_cleanup is called with the devices as the scene left
\* them: the relay on or off, the lights on or off, the motor at rest
EmergencyCleanupCall ==
    /\ program = "cleanup"
    /\ cpos = 0
    /\ relay_state' \in BOOLEAN
    /\ relay_pin' = PinLevel(active_high, relay_state')
    /\ light_power' \in {"on", "off"}
    /\ forward_pin' = LOW
    /\ reverse_pin' = LOW
    /\ cpos' = 1
    /\ clog' = {}
    /\ UNCHANGED <<cleanup_actions, active_high, rpc, rop, rret, rwas, rdur, rhit>>
    /\ UNCHANGED <<mpc, mdir, mret, light_color, lpc, flash_left, sent, lret, lcall>>
    /\ UNCHANGED <<engineVars, duration, detectVars, audioVars, bundleVars, toolVars>>

CleanupAt(type) ==
    /\ program = "cleanup"
    /\ cpos \in 1..Len(cleanup_actions)
    /\ cleanup_actions[cpos] = type
    /\ cpos' = cpos + 1
    /\ UNCHANGED <<cleanup_actions, engineVars, duration, detectVars, audioVars, bundleVars, toolVars>>

\* relay_off: relay.off() when the target is in hardware_refs; off() assigns
\* self.state and swallows a GPIO error
CleanupRelayOff ==
    /\ CleanupAt("relay_off")
    /\ \E ref \in BOOLEAN, ok \in BOOLEAN :
         IF ref
         THEN /\ relay_state' = FALSE
              /\ relay_pin' = IF ok THEN PinLevel(active_high, FALSE) ELSE relay_pin
              /\ clog' = clog \cup {"relay_off"}
         ELSE UNCHANGED <<relay_state, relay_pin, clog>>
    /\ UNCHANGED <<active_high, rpc, rop, rret, rwas, rdur, rhit, motorVars, lightVars>>

\* motor_close: motor.move_reverse(6.0) when the motor is in hardware_refs; a
\* GPIO error ends the move in _stop_motor, which swallows its own errors
CleanupMotorClose ==
    /\ CleanupAt("motor_close")
    /\ \E ref \in BOOLEAN, ok \in BOOLEAN :
         IF ref /\ ok
         THEN /\ forward_pin' = LOW
              /\ reverse_pin' = LOW
              /\ clog' = clog \cup {"motor_close"}
         ELSE /\ forward_pin' = forward_pin
              /\ reverse_pin' \in (IF ref THEN {LOW, HIGH} ELSE {reverse_pin})
              /\ UNCHANGED clog
    /\ UNCHANGED <<mpc, mdir, mret, relayVars, lightVars>>

\* lights_off: lights.turn_off() when the lights are in hardware_refs; its
\* result is dropped
CleanupLightsOff ==
    /\ CleanupAt("lights_off")
    /\ \E ref \in BOOLEAN, ok \in BOOLEAN :
         IF ref
         THEN /\ light_power' = IF ok THEN "off" ELSE light_power
              /\ clog' = clog \cup {"lights_off"}
         ELSE UNCHANGED <<light_power, clog>>
    /\ UNCHANGED <<light_color, lpc, flash_left, sent, lret, lcall, motorVars, relayVars>>

\* the for loop is over
CleanupReturn ==
    /\ program = "cleanup"
    /\ cpos > Len(cleanup_actions)
    /\ cpos' = 0
    /\ clog' = clog \cup {"returned"}
    /\ UNCHANGED cleanup_actions
    /\ UNCHANGED <<engineVars, duration, detectVars, motorVars, deviceVars, bundleVars, toolVars>>

InitCleanup ==
    /\ program = "cleanup"
    /\ pc = [t \in Threads |-> "idle"]
    /\ SEQUENCE_RUNNING = FALSE
    /\ SYSTEM_INITIALIZED = TRUE
    /\ nsteps = [t \in Threads |-> 0]
    /\ step = [t \in Threads |-> 0]
    /\ fx = [t \in Threads |-> 1]
    /\ success = [t \in Threads |-> FALSE]
    /\ cidx = [t \in Threads |-> 1]
    /\ ncleanup = 0
    /\ result = [t \in Threads |-> FALSE]
    /\ hist = [t \in Threads |-> NoHist]
    /\ duration = [t \in Threads |-> 0]
    /\ DetectIdle
    /\ MotorIdle
    /\ DeviceIdle
    /\ BundleIdle
    /\ ToolIdle
    /\ cleanup_actions \in CleanupLists
    /\ cpos = 0
    /\ clog = {}

NextCleanup ==
    \/ EmergencyCleanupCall
    \/ CleanupRelayOff
    \/ CleanupMotorClose
    \/ CleanupLightsOff
    \/ CleanupReturn

SpecCleanup == InitCleanup /\ [][NextCleanup]_vars

-----------------------------------------------------------------------------
(* The scene configuration: SceneManager.get_scene / get_all_scenes /        *)
(* get_scene_names, and the choice of the scene in run_halloween_sequence    *)

SceneNames == {"halloween_sequence", "graveyard", "quick_scare"}
SceneDefs == {1, 2}                \* scene definitions that can stand under a name
DefaultScene == "halloween_sequence"

\* test_scenes of get_scene_names
TestScenes == {"maintenance_mode", "emergency_test", "quick_scare"}

\* the dicts a section of the scene configuration can hold
SceneDicts == UNION {[S -> SceneDefs] : S \in SUBSET SceneNames}

\* the values of settings.random_scene_list that are tried
SceneLists == {<<>>} \cup {<<n>> : n \in SceneNames}

\* no scene engine, detection loop, device or effect call is modelled
ToolBase ==
    /\ pc = [t \in Threads |-> "idle"]
    /\ SEQUENCE_RUNNING = FALSE
    /\ SYSTEM_INITIALIZED = TRUE
    /\ nsteps = [t \in Threads |-> 0]
    /\ step = [t \in Threads |-> 0]
    /\ fx = [t \in Threads |-> 1]
    /\ success = [t \in Threads |-> FALSE]
    /\ cidx = [t \in Threads |-> 1]
    /\ ncleanup = 0
    /\ result = [t \in Threads |-> FALSE]
    /\ hist = [t \in Threads |-> NoHist]
    /\ duration = [t \in Threads |-> 0]
    /\ DetectIdle
    /\ MotorIdle
    /\ DeviceIdle
    /\ BundleIdle
    /\ CleanupIdle

\* get_scene: the main scenes are checked first, then the alternative sequences
GetScene(name) ==
    IF name \in DOMAIN scenes THEN scenes[name]
    ELSE IF name \in DOMAIN alternative_sequences THEN alternative_sequences[name]
    ELSE None

\* get_all_scenes: all_scenes.update(main_scenes); all_scenes.update(alternative_scenes)
GetAllScenes ==
    [n \in (DOMAIN scenes) \cup (DOMAIN alternative_sequences) |->
        IF n \in DOMAIN alternative_sequences THEN alternative_sequences[n] ELSE scenes[n]]

\* get_scene_names: the keys of get_all_scenes(), without test_scenes on request
GetSceneNames(exclude_test_scenes) ==
    IF exclude_test_scenes THEN (DOMAIN GetAllScenes) \ TestScenes ELSE DOMAIN GetAllScenes

\* run_halloween_sequence: the list that random.choice is called on; with
\* random_scene_mode it is get_scene_names(exclude_test_scenes=True), without it
\* the configured random_scene_list
RandomPool ==
    IF random_scene_mode THEN GetSceneNames(TRUE) ELSE Range(random_scene_list)

\* run_halloween_sequence, lines 389-408: scene_name = 'halloween_sequence', then
\* a random.choice when the list of its branch is not empty
ChooseScene ==
    /\ scene_name = "unset"
    /\ qname = "unset"
    /\ all_scenes = <<>>
    /\ IF RandomPool # {}
       THEN /\ \E n \in RandomPool : scene_name' = n
            /\ random_choice' = TRUE
       ELSE /\ scene_name' = DefaultScene
            /\ random_choice' = FALSE
    /\ UNCHANGED <<scenes, alternative_sequences, random_scene_mode, random_scene_list,
                   qname, scene_config, all_scenes>>
    /\ UNCHANGED <<engineVars, duration, detectVars, motorVars, deviceVars>>
    /\ UNCHANGED <<bundleVars, cleanupVars, seqVars, probeVars>>

\* execute_scene(scene_name): scene = self.get_scene(scene_name)
ExecuteSceneLookup ==
    /\ scene_name # "unset"
    /\ qname = "unset"
    /\ qname' = scene_name
    /\ scene_config' = GetScene(scene_name)
    /\ UNCHANGED <<scenes, alternative_sequences, random_scene_mode, random_scene_list,
                   scene_name, random_choice, all_scenes>>
    /\ UNCHANGED <<engineVars, duration, detectVars, motorVars, deviceVars>>
    /\ UNCHANGED <<bundleVars, cleanupVars, seqVars, probeVars>>

\* a tool (run_scene --list, test_random_scenes) calls get_scene(name)
GetSceneCall(name) ==
    /\ scene_name = "unset"
    /\ qname = "unset"
    /\ qname' = name
    /\ scene_config' = GetScene(name)
    /\ UNCHANGED <<scenes, alternative_sequences, random_scene_mode, random_scene_list,
                   scene_name, random_choice, all_scenes>>
    /\ UNCHANGED <<engineVars, duration, detectVars, motorVars, deviceVars>>
    /\ UNCHANGED <<bundleVars, cleanupVars, seqVars, probeVars>>

\* a tool calls get_all_scenes()
GetAllScenesCall ==
    /\ scene_name = "unset"
    /\ all_scenes = <<>>
    /\ all_scenes' = <<GetAllScenes>>
    /\ UNCHANGED <<scenes, alternative_sequences, random_scene_mode, random_scene_list,
                   scene_name, random_choice, qname, scene_config>>
    /\ UNCHANGED <<engineVars, duration, detectVars, motorVars, deviceVars>>
    /\ UNCHANGED <<bundleVars, cleanupVars, seqVars, probeVars>>

InitScenes ==
    /\ program = "scenes"
    /\ ToolBase
    /\ SeqIdle
    /\ ProbeIdle
    /\ scenes \in SceneDicts
    /\ alternative_sequences \in SceneDicts
    /\ random_scene_mode \in BOOLEAN
    /\ random_scene_list \in SceneLists
    /\ scene_name = "unset"
    /\ random_choice = FALSE
    /\ qname = "unset"
    /\ scene_config = None
    /\ all_scenes = <<>>

NextScenes ==
    \/ ChooseScene
    \/ ExecuteSceneLookup
    \/ \E name \in SceneNames : GetSceneCall(name)
    \/ GetAllScenesCall

SpecScenes == InitScenes /\ [][NextScenes]_vars

-----------------------------------------------------------------------------
(* execute_sequence, main.py *)

\* what an item of the list can be: a mapping whose action runs, one whose
\* device call raises, one with an unknown type, with an unknown relay name,
\* with an unknown music file, and an item that is not a mapping (a bare
\* string or null of the YAML file)
ActionKinds == {"runs", "raises", "unknown_type", "unknown_relay", "unknown_music",
                "not_a_mapping"}

SequenceLists == UNION {[1..n -> ActionKinds] : n \in 0..MaxActions}

\* what the body of the loop does with an item that is a mapping: the branch
\* of its type runs; an exception is caught by `except Exception` and logged;
\* an unknown relay or music file is logged before `continue`; an unknown type
\* is logged by the final else
ActionOutcome(kind) ==
    CASE kind = "runs"          -> "executed"
      [] kind = "raises"        -> "error_logged"
      [] kind = "unknown_type"  -> "warning_logged"
      [] kind = "unknown_relay" -> "error_logged"
      [] kind = "unknown_music" -> "error_logged"

\* execute_sequence(sequence_config): the for loop is entered
ExecuteSequence ==
    /\ action_index = 0
    /\ seq_ret = "none"
    /\ action_index' = 1
    /\ UNCHANGED <<sequence_config, seq_log, seq_ret>>
    /\ UNCHANGED <<engineVars, duration, detectVars, motorVars, deviceVars>>
    /\ UNCHANGED <<bundleVars, cleanupVars, sceneVars, probeVars>>

\* one pass of the loop for an item that is a mapping: action.get('type')
\* succeeds and the try statement handles the rest
ActionStep ==
    /\ action_index \in 1..Len(sequence_config)
    /\ sequence_config[action_index] # "not_a_mapping"
    /\ seq_log' = Append(seq_log, ActionOutcome(sequence_config[action_index]))
    /\ action_index' = action_index + 1
    /\ UNCHANGED <<sequence_config, seq_ret>>
    /\ UNCHANGED <<engineVars, duration, detectVars, motorVars, deviceVars>>
    /\ UNCHANGED <<bundleVars, cleanupVars, sceneVars, probeVars>>

\* one pass of the loop for an item that is not a mapping: action.get('type')
\* stands before the try statement, its AttributeError leaves execute_sequence
ActionGetRaises ==
    /\ action_index \in 1..Len(sequence_config)
    /\ sequence_config[action_index] = "not_a_mapping"
    /\ seq_ret' = "raised"
    /\ action_index' = 0
    /\ UNCHANGED <<sequence_config, seq_log>>
    /\ UNCHANGED <<engineVars, duration, detectVars, motorVars, deviceVars>>
    /\ UNCHANGED <<bundleVars, cleanupVars, sceneVars, probeVars>>

\* the list is exhausted: execute_sequence returns
SequenceReturn ==
    /\ action_index = Len(sequence_config) + 1
    /\ seq_ret' = "returned"
    /\ action_index' = 0
    /\ UNCHANGED <<sequence_config, seq_log>>
    /\ UNCHANGED <<engineVars, duration, detectVars, motorVars, deviceVars>>
    /\ UNCHANGED <<bundleVars, cleanupVars, sceneVars, probeVars>>

InitSequence ==
    /\ program = "sequence"
    /\ ToolBase
    /\ SceneIdle
    /\ ProbeIdle
    /\ sequence_config \in SequenceLists
    /\ action_index = 0
    /\ seq_log = <<>>
    /\ seq_ret = "none"

NextSequence ==
    \/ ExecuteSequence
    \/ ActionStep
    \/ ActionGetRaises
    \/ SequenceReturn

SpecSequence == InitSequence /\ [][NextSequence]_vars

-----------------------------------------------------------------------------
(* get_shortest_distance and main, test.py *)

\* `if distance_1 and distance_2`
BothTruthy(d1, d2) == d1 # None /\ d2 # None

\* main: distance = get_shortest_distance()
ProbeCall ==
    /\ tpc = "main"
    /\ tpc' = "read"
    /\ probes' = 0
    /\ UNCHANGED <<distance_1, distance_2, test_distance>>
    /\ UNCHANGED <<engineVars, duration, detectVars, motorVars, deviceVars>>
    /\ UNCHANGED <<bundleVars, cleanupVars, sceneVars, seqVars>>

\* while True: distance_1 = ...read_distance(); distance_2 = ...read_distance()
ProbeRead ==
    /\ tpc = "read"
    /\ probes < MaxProbes
    /\ \E d1, d2 \in Readings : distance_1' = d1 /\ distance_2' = d2
    /\ probes' = probes + 1
    /\ tpc' = "test"
    /\ UNCHANGED test_distance
    /\ UNCHANGED <<engineVars, duration, detectVars, motorVars, deviceVars>>
    /\ UNCHANGED <<bundleVars, cleanupVars, sceneVars, seqVars>>

\* if distance_1 and distance_2: break; return min(distance_1, distance_2);
\* otherwise the loop starts over
ProbeTest ==
    /\ tpc = "test"
    /\ IF BothTruthy(distance_1, distance_2)
       THEN /\ test_distance' = Min(distance_1, distance_2)
            /\ tpc' = "check"
       ELSE /\ tpc' = "read"
            /\ UNCHANGED test_distance
    /\ UNCHANGED <<distance_1, distance_2, probes>>
    /\ UNCHANGED <<engineVars, duration, detectVars, motorVars, deviceVars>>
    /\ UNCHANGED <<bundleVars, cleanupVars, sceneVars, seqVars>>

\* main: the fixed sequence when distance < 50, then the next pass of the loop
ProbeMain ==
    /\ tpc = "check"
    /\ tpc' = "main"
    /\ probes' = 0
    /\ UNCHANGED <<distance_1, distance_2, test_distance>>
    /\ UNCHANGED <<engineVars, duration, detectVars, motorVars, deviceVars>>
    /\ UNCHANGED <<bundleVars, cleanupVars, sceneVars, seqVars>>

InitProbe ==
    /\ program = "test"
    /\ ToolBase
    /\ SceneIdle
    /\ SeqIdle
    /\ ProbeIdle

NextProbe ==
    \/ ProbeCall
    \/ ProbeRead
    \/ ProbeTest
    \/ ProbeMain

SpecProbe == InitProbe /\ [][NextProbe]_vars

-----------------------------------------------------------------------------
(* Claims about the scene engine, checked under Spec *)

RunningScenes == {t \in Threads : Running(t)}
SceneReturned(t) == pc[t] \in {"rhs_finally", "cli_finally"}
UpTo(n) == [i \in 1..n |-> i]

\* C1: at most one scene is Running at any time, and a request rejected as busy
\* returns False without starting a step or dispatching an effect.
C1_OneSceneAtATime ==
    /\ Cardinality(RunningScenes) <= 1
    /\ \A t \in Callers : hist[t].rejected =>
           /\ result[t] = FALSE
           /\ hist[t].started = 0
           /\ ~hist[t].dispatched

C5_CleanupAttemptsEveryAction ==
    \A t \in Callers :
        /\ ~hist[t].escaped
        /\ pc[t] = "cleanup" => hist[t].attempted = UpTo(cidx[t] - 1)
        /\ (pc[t] = "ret" /\ hist[t].cleanups > 0) => hist[t].attempted = UpTo(ncleanup)

\* C5 witness: a cleanup whose first action raised has attempted all its actions.
C5_Witness ==
    \E t \in Callers :
        /\ pc[t] = "ret"
        /\ ncleanup >= 2
        /\ hist[t].caught = ncleanup
        /\ hist[t].attempted = UpTo(ncleanup)

-----------------------------------------------------------------------------
(* Claims about the detection loop, checked under SpecDetect *)

\* C6: once a scene has been triggered, the detection loop starts no new scene
\* until cooldown_after_sequence seconds have elapsed since that trigger,
\* whether the triggered scene succeeded or failed.
C6_NoTriggerWithinCooldown ==
    det.gap # None => det.gap >= cooldown_after_sequence

\* C7: after a trigger, no further trigger occurs until the distance has risen
\* above the warning threshold; stated for the triggers that follow a run that
\* returned True, where last_sequence_time was updated.
C7_RearmOnlyBeyondWarning ==
    (det.triggers >= 2 /\ det.afterOk) => det.zoneAt = 2

\* C8: when exactly one reading is invalid, get_shortest_distance returns the
\* other, valid reading.
C8_ReturnsTheValidReading ==
    pc["main"] = "loop_check" =>
        /\ (reading[1] = None /\ reading[2] # None) => distance = reading[2]
        /\ (reading[1] # None /\ reading[2] = None) => distance = reading[1]

\* C9: a tick whose sensor readings are both invalid triggers no scene and
\* changes neither the last-trigger time nor the running flag (a step that is a
\* KeyboardInterrupt is not a step of the tick).
C9_InvalidTickChangesNothing ==
    [][(pc["main"] = "loop_check" /\ reading = <<None, None>> /\ ~det'.interrupted) =>
          /\ pc'["main"] = "loop_sleep"
          /\ det'.triggers = det.triggers
          /\ det'.last = det.last
          /\ last_sequence_time' = last_sequence_time
          /\ SEQUENCE_RUNNING' = SEQUENCE_RUNNING
          /\ hist' = hist]_vars

\* the tick with both readings invalid has been checked while the cooldown
\* was over, after an earlier scene had been triggered
C9_Witness ==
    /\ pc["main"] = "loop_sleep"
    /\ reading = <<None, None>>
    /\ distance = default_safe_distance
    /\ det.triggers >= 1
    /\ current_time - last_sequence_time >= cooldown_after_sequence

-----------------------------------------------------------------------------
(* Claims about the motor, checked under SpecMotor *)

\* C10: the forward and reverse outputs are never both energized, also when
\* move_forward and move_reverse run in different concurrent units.
C10_NeverBothEnergized ==
    ~(forward_pin = HIGH /\ reverse_pin = HIGH)

\* C11: whenever move_forward or move_reverse has returned, True or False, both
\* motor outputs are de-energized, even if a GPIO operation failed during the
\* move; stated for the moments when no move is in progress in any unit.
C11_StoppedAfterReturn ==
    ((\A u \in Units : mpc[u] = "idle") /\ (\E u \in Units : mret[u] \in {"true", "false"}))
        => (forward_pin = LOW /\ reverse_pin = LOW)

-----------------------------------------------------------------------------
(* Claims about the audio players, checked under SpecAudio *)

\* C12: at most one playback is in flight per audio channel: a play() issued
\* after an earlier play() returned True and before that playback has finished
\* starts no second playback thread.
C12_OnePlaybackPerPlayer ==
    \A p \in Players : Cardinality({k \in Slots : playback[p][k] # "none"}) <= 1

-----------------------------------------------------------------------------
(* Claims about the relay, checked under SpecRelay *)

\* C13: no two concurrent units issue commands to the relay at the same time:
\* the off() of a timed_off thread never overlaps an on()/off() of the scene
\* thread on the same relay.
C13_OneRelayCommandAtATime ==
    Cardinality({u \in RelayUnits : Busy(u)}) <= 1

\* C20: on() on a relay that is on (state True, pin at the ON level) leaves
\* state and pin level unchanged in each of its steps and returns True;
\* likewise off() on a relay that is off.
C20_OnOffIdempotent ==
    [][\A u \in RelayUnits :
          (/\ Busy(u)
           /\ rpc'[u] # rpc[u]
           /\ relay_state = (rop[u] = "on")
           /\ relay_pin = PinLevel(active_high, relay_state))
          => /\ relay_state' = relay_state
             /\ relay_pin' = relay_pin
             /\ (u = 0 /\ rpc'[0] = "idle") => rret' = "true"]_vars

\* on() was called on a relay that was already on, and has returned
C20_Witness ==
    /\ rpc[0] = "idle"
    /\ rret = "true"
    /\ rwas
    /\ rop[0] = "on"
    /\ relay_state
    /\ relay_pin = PinLevel(active_high, TRUE)

-----------------------------------------------------------------------------
(* Claims about the light, checked under SpecLight *)

InRange(args) == \A i \in 1..Len(args) : 0 <= args[i] /\ args[i] <= 255

Alternating(n) == [i \in 1..(2 * n) |-> IF i % 2 = 1 THEN "turn_off" ELSE "turn_on"]

\* C18: set_color(r, g, b) hands the colour command to send_command for every
\* triple with all channels in [0,255], and the light takes that colour when
\* the send succeeds; with a channel outside the range it returns False, sends
\* no command and leaves the light's colour and power unchanged (no clamping).
C18_SetColorValidates ==
    [][SetColor =>
          IF InRange(lcall'.args)
          THEN /\ sent' = <<"colorwc">>
               /\ lret' = "true" => light_color' = lcall'.args
               /\ lret' = "false" => light_color' = light_color
          ELSE /\ lret' = "false"
               /\ sent' = <<>>
               /\ light_color' = light_color
               /\ light_power' = light_power]_vars

\* a triple with a channel above 255 was rejected and the colour set before is kept
C18_Witness ==
    /\ lcall.op = "set_color"
    /\ \E i \in 1..3 : lcall.args[i] > 255
    /\ lret = "false"
    /\ sent = <<>>
    /\ light_color = <<0, 255, 0>>

-----------------------------------------------------------------------------
(* Claims about the timing of steps, checked under SpecDetect and Spec *)

\* C14: within one Effects bundle every later sub-effect is dispatched before
\* an earlier flash or motor move of the same bundle has completed.
C14_DispatchedBeforeBlockingEnds ==
    \A t \in Threads : ~hist[t].behind

\* C15: the steps of a scene start in list order, each at most once (the k-th
\* step started is step k of the list), and step i+1 does not start before
\* step i's duration has elapsed since step i started.
C15_StepsInOrderAfterDuration ==
    [][\A t \in Threads :
          /\ (pc[t] = "step_begin" /\ pc'[t] = "dispatch")
                => (hist'[t].started = step[t] /\ step[t] <= nsteps[t])
          /\ (pc[t] = "step_wait" /\ pc'[t] = "step_begin")
                => /\ step'[t] = step[t] + 1
                   /\ hist[t].started = step[t]
                   /\ now' - hist[t].stepStart >= duration[t]]_vars

\* the second step of a scene is about to start, the first step's positive
\* duration after the first step started
C15_Witness ==
    /\ pc["main"] = "step_begin"
    /\ step["main"] = 2
    /\ hist["main"].started = 1
    /\ duration["main"] >= 1
    /\ now - hist["main"].stepStart = duration["main"]

\* C16: the time spent in a step that succeeded equals
\* max(step duration, time taken by effect dispatch), not their sum.
C16_StepTakesMaxOfDurationAndDispatch ==
    [][\A t \in Threads :
          (pc[t] = "step_wait" /\ success[t] /\ pc'[t] # pc[t])
             => now' - hist[t].stepStart = Max(duration[t], now - hist[t].stepStart)]_vars

\* C17: executing a scene that has zero steps returns True at once and
\* dispatches no effect.
C17_EmptySceneSucceeds ==
    [][\A t \in Threads :
          (pc[t] = "es_start" /\ nsteps[t] = 0 /\ pc'[t] # pc[t])
             => /\ pc'[t] \in {"rhs_finally", "cli_finally"}
                /\ success'[t] = TRUE
                /\ hist'[t].started = 0
                /\ hist'[t].dispatched = FALSE
                /\ now' = now]_vars

\* execute_scene has returned True for a scene without steps
C17_Witness ==
    \E t \in Threads :
        /\ SceneReturned(t)
        /\ nsteps[t] = 0
        /\ success[t]
        /\ hist[t].started = 0
        /\ ~hist[t].dispatched

-----------------------------------------------------------------------------
(* Timed relay-on *)

\* C21: a relay effect with action 'on' and duration > 0 returns True as soon as
\* on() is done, with its timed_off thread started and still sleeping and the
\* relay state on (unless another timed_off thread assigned the state during
\* the call); every timed_off thread eventually wakes and assigns the state off.
C21_TimedOnReturnsThenSwitchesOff ==
    /\ [][(rpc[0] = "gpio" /\ rpc'[0] = "idle" /\ rop[0] = "on" /\ rdur > 0)
            => /\ rret' = "true"
               /\ \E k \in Timers : rpc[k] = "idle" /\ rpc'[k] = "sleep"
               /\ rhit \/ relay_state']_vars
    /\ \A k \in Timers :
         (rpc[k] = "sleep") ~> (rpc[k] = "gpio" /\ rop[k] = "off" /\ ~relay_state)

\* the timed on has returned, no command followed it, and the relay is off again
C21_Witness ==
    /\ program = "relay"
    /\ rop[0] = "on" /\ rdur > 0 /\ rret = "true" /\ ~rhit
    /\ \A u \in RelayUnits : rpc[u] = "idle"
    /\ ~relay_state
    /\ relay_pin = PinLevel(active_high, FALSE)

-----------------------------------------------------------------------------
(* Claims about execute_effects, checked under SpecEffects *)

Present(keys) == SelectSeq(EffectOrder, LAMBDA e : e \in Range(keys))

\* C22: when execute_effects returns, the executors of the bundle's keys have
\* been called in the order lights, audio, motor, relay, each once, whatever
\* the order of the keys in the step's configuration.
C22_DispatchedInFixedOrder ==
    (program = "effects" /\ eret # "none") => elog.called = Present(effects)

\* a bundle whose keys are in the reverse order was dispatched in the fixed one
C22_Witness ==
    /\ program = "effects" /\ eret # "none"
    /\ effects = <<"relay", "motor", "audio", "lights">>
    /\ elog.called = EffectOrder

\* C23: when an effect of the bundle has no hardware reference, that effect
\* reaches no plugin, the executor of every key of the bundle is still called,
\* and execute_effects returns False.
C23_MissingReferenceSkipped ==
    (program = "effects" /\ eret # "none" /\ elog.missing # {})
        => /\ eret = "false"
           /\ Range(elog.called) = Range(effects)
           /\ elog.reached \cap elog.missing = {}

\* the first of four effects has no reference, the other three reached their plugin
C23_Witness ==
    /\ program = "effects" /\ eret = "false"
    /\ Len(effects) = 4
    /\ elog.missing = {"lights"}
    /\ elog.reached = {"audio", "motor", "relay"}

\* C24: execute_effects returns True only if no command of the bundle was
\* rejected by its plugin's validation.
C24_RejectedCommandFailsBundle ==
    (program = "effects" /\ eret = "true") => elog.rejected = {}

-----------------------------------------------------------------------------
(* Claims about execute_emergency_cleanup, checked under SpecCleanup *)

\* C25: when execute_emergency_cleanup has returned, the relay is off, the
\* motor has been driven closed and is stopped, and the lights have been
\* commanded off.
C25_SafeAfterCleanup ==
    (program = "cleanup" /\ "returned" \in clog)
        => /\ ~relay_state /\ relay_pin = PinLevel(active_high, FALSE)
           /\ "motor_close" \in clog /\ forward_pin = LOW /\ reverse_pin = LOW
           /\ "lights_off" \in clog

-----------------------------------------------------------------------------
(* Claims about main's start-up, loop and shutdown, checked under SpecDetect *)

Polling == {"loop_read", "loop_check", "loop_sleep"}

Trigger == pc["main"] = "loop_check" /\ pc'["main"] = "rhs_guard"

C27_InitFailureExitsNonZero ==
    /\ [][(pc["main"] = "main_start" /\ ~SYSTEM_INITIALIZED') => pc'["main"] = "exit_1"]_vars
    /\ [](pc["main"] = "exit_1" => (det.triggers = 0 /\ ~SYSTEM_INITIALIZED))
    /\ [](pc["main"] \in Polling => SYSTEM_INITIALIZED)

\* the process has exited with code 1 after a failed initialization
C27_Witness ==
    /\ program = "main"
    /\ pc["main"] = "exit_1"
    /\ ~SYSTEM_INITIALIZED
    /\ det.triggers = 0

\* C28: a trigger that follows a run which returned True comes at least
\* cooldown_after_sequence after that run returned.
C28_CooldownFromEndOfRun ==
    [][(Trigger /\ det.ended # None) => now - det.ended >= cooldown_after_sequence]_vars

\* C29: the loop triggers only when no scene is running and SEQUENCE_RUNNING
\* is unset, and it does not poll while the flag is set.
C29_NoTriggerWhileRunning ==
    /\ [][Trigger => (~SEQUENCE_RUNNING /\ \A t \in Threads : ~Running(t))]_vars
    /\ [](SEQUENCE_RUNNING => pc["main"] \notin Polling)

\* the second run triggered by the loop is in progress
C29_Witness ==
    /\ program = "main"
    /\ det.triggers = 2
    /\ pc["main"] = "dispatch"
    /\ SEQUENCE_RUNNING

\* C30: when the process has exited after a KeyboardInterrupt,
\* execute_emergency_cleanup was invoked on the way.
C30_InterruptRunsEmergencyCleanup ==
    (program = "main" /\ pc["main"] = "exit_0") => hist["main"].cleanups > 0

-----------------------------------------------------------------------------
(* Claims about the busy flag and the finally clause, checked under Spec *)

\* C33: SEQUENCE_RUNNING is set only while some accepted call is between its
\* assignment and its finally clause; an accepted call leaves its finally clause
\* with the flag cleared whatever the scene did; a call that returns False at a
\* guard leaves the flag as it found it.
C33_FlagFollowsAcceptedRuns ==
    /\ [](SEQUENCE_RUNNING => \E t \in Callers : pc[t] \in InTry)
    /\ [][\A t \in Callers : (pc[t] = "rhs_finally" /\ pc'[t] # "rhs_finally")
                                  => ~SEQUENCE_RUNNING']_vars
    /\ [][\A t \in Callers : (pc[t] = "rhs_guard" /\ pc'[t] = "ret")
                                  => SEQUENCE_RUNNING' = SEQUENCE_RUNNING]_vars

\* one call was rejected and has returned while the accepted run, in which an
\* exception was raised, is about to execute its finally clause
C33_Witness ==
    \E t, u \in Callers :
        /\ pc[t] = "rhs_finally"
        /\ hist[t].accepted
        /\ hist[t].raised
        /\ SEQUENCE_RUNNING
        /\ pc[u] = "ret"
        /\ hist[u].rejected

\* C34: no call passes the guards of run_halloween_sequence while another
\* call's execute_emergency_cleanup still has cleanup actions to execute.
C34_NoAcceptDuringCleanup ==
    [][\A u \in Callers : (pc[u] = "rhs_guard" /\ pc'[u] = "rhs_set")
           => \A t \in Callers : ~(pc[t] = "cleanup" /\ cidx[t] <= ncleanup)]_vars

-----------------------------------------------------------------------------
(* Claims about the relay and its auto-off timers, checked under SpecRelay *)

\* C35: when the latest command on the relay was an untimed "on" that has
\* returned, so that every timed_off thread still alive was started by an
\* earlier activation, the relay.off() of such a thread leaves the relay on.
C35_TimerSparesLaterActivation ==
    [][\A k \in Timers :
          (/\ rpc[k] = "state" /\ rpc'[k] = "gpio"
           /\ rpc[0] = "idle" /\ rret = "true"
           /\ rop[0] = "on" /\ rdur = 0
           /\ relay_state)
          => relay_state']_vars

\* C37: whenever no on()/off() is in progress and the latest call returned
\* True, Relay.state is the logical level that the pin is at.
C37_StateIsLevelDriven ==
    ((\A u \in RelayUnits : rpc[u] = "idle") /\ rret = "true")
        => relay_pin = PinLevel(active_high, relay_state)

-----------------------------------------------------------------------------
(* Claims about the scene configuration, checked under SpecScenes *)

\* C31: a scene that run_halloween_sequence chose with random.choice is a scene
\* of the configuration and is none of the test scenes.
C31_RandomChoiceIsEligible ==
    random_choice => (scene_name \in DOMAIN GetAllScenes /\ scene_name \notin TestScenes)

\* C32: with random_scene_mode false, run_halloween_sequence makes no random
\* choice and executes the default scene 'halloween_sequence'.
C32_NoRandomChoiceWithoutMode ==
    (~random_scene_mode /\ scene_name # "unset")
        => (~random_choice /\ scene_name = DefaultScene)

\* C36: get_scene(name) is get_all_scenes()[name] when name is a key of
\* get_all_scenes(), and None exactly when it is not.
C36_GetSceneAgreesWithGetAllScenes ==
    (scene_name = "unset" /\ qname # "unset" /\ all_scenes # <<>>)
        => scene_config = (IF qname \in DOMAIN all_scenes[1]
                           THEN all_scenes[1][qname] ELSE None)

-----------------------------------------------------------------------------
(* Claims about get_shortest_distance and execute_sequence *)

\* C38: a call of get_shortest_distance makes at most max_sensor_retries
\* passes of its read loop, and comes back with default_safe_distance when
\* none of them gave two valid readings.
C38_GivesUpAfterMaxRetries ==
    /\ probes <= max_sensor_retries
    /\ retry_count < max_sensor_retries
    /\ (tpc = "check" /\ ~BothTruthy(distance_1, distance_2))
           => test_distance = default_safe_distance

\* C39: execute_sequence never raises, and when it has returned it has gone
\* through every item of the list in order, each one executed or logged.
C39_EveryActionHandledNoRaise ==
    /\ seq_ret # "raised"
    /\ seq_ret = "returned" =>
           /\ Len(seq_log) = Len(sequence_config)
           /\ \A i \in 1..Len(seq_log) :
                  /\ sequence_config[i] # "not_a_mapping"
                  /\ seq_log[i] = ActionOutcome(sequence_config[i])

====
